---- MODULE Spec2Model ----
\* Model of the Safe-Web content script (src/src/content/content.js):
\* the scan coordinator, the tree scanner, the masking engine and the
\* mutation monitor of class SafeWebContentScript, as one state machine whose
\* actions are the event handlers the browser runs to completion.
EXTENDS Integers, Sequences, FiniteSets, TLC

\* ------------------------------------------------------------------ bounds
\* Slots for the page's container elements (children of document.body).
NumParents == 2
\* Resolution of the clock: time advances in steps of
\* scanThrottleDelay \div TicksPerThrottle milliseconds.
TicksPerThrottle == 4
\* Stand-in for maxNodesPerScan (500 in the source), scaled to the page size
\* the model explores.
maxNodesPerScan == 3

\* Custom patterns the settings page may hold at a time.
MaxPatterns == 2
\* UPDATE_SETTINGS requests and storage notifications in flight at a time.
MaxInFlight == 1
\* Calls of addCustomPattern the settings page makes, each at a later
\* millisecond (Date.now() gives the id).
MaxAdds == 3

\* ------------------------------------------------------- program constants
scanThrottleDelay == 1000
rescanDebounceMs == 300
minTextLength == 5
maxTextLength == 1000
significantTextLength == 3
defaultIntensity == 5
maxIntensity == 10

Tick == scanThrottleDelay \div TicksPerThrottle
Parents == 1..NumParents

Min(a, b) == IF a < b THEN a ELSE b
Max(a, b) == IF a > b THEN a ELSE b

\* ------------------------------------------------------------------- text
\* A text is a sequence of tokens; each token stands for a literal piece of
\* page text:
\*   "W"    "word "                 plain words
\*   "HI"   "hi"                    two plain characters
\*   "E"    "a@b.com"               matched by the email rule only
\*   "P"    "555-123-4567"          matched by the phone rule only
\*   "S"    "123-45-6789"           matched by the ssn rule only
\*   "C"    "4111 1111 1111 1111"   matched by the creditCard rule only
\*   "ENT"  "&lt;"                  the four characters & l t ;
\*   "LT"   "<"                     a less-than sign (what "&lt;" parses to)
\*   "TAG"  "<br>"                  the four characters < b r >
\*   "PU"   "555\u2009123\u20094567"  a phone number written with thin spaces
\*                                  (U+2009, which \s matches)
\*   "AT"   "@b.com"                after "555-123-4567" it makes an address
\*   "K"    "EMP-1234"              matched by no built-in rule
\*   "NL"   a line break and two blanks (white space)
\*   "LONG" 990 characters of plain text without white space at its ends
\*   "BOLD" "<b>word </b>"          the twelve characters, as text
Token == {"W", "HI", "E", "P", "S", "C", "ENT", "LT", "TAG", "PU",
          "AT", "K", "NL", "LONG", "BOLD"}

TokLen(t) ==
  CASE t = "W" -> 5
    [] t = "HI" -> 2
    [] t = "E" -> 7
    [] t = "P" -> 12
    [] t = "S" -> 11
    [] t = "C" -> 19
    [] t = "ENT" -> 4
    [] t = "LT" -> 1
    [] t = "TAG" -> 4
    [] t = "PU" -> 12
    [] t = "AT" -> 6
    [] t = "K" -> 8
    [] t = "NL" -> 3
    [] t = "LONG" -> 990
    [] t = "BOLD" -> 12

RECURSIVE TextLen(_)
TextLen(text) ==
  IF text = <<>> THEN 0 ELSE TokLen(Head(text)) + TextLen(Tail(text))

\* Categories in the order getSensitivePatterns registers them.
Cats == <<"email", "phone", "ssn", "creditCard">>

\* The token sequences a category's regular expression matches.
Lits(cat) ==
  CASE cat = "email" -> {<<"E">>, <<"P", "AT">>}
    [] cat = "phone" -> {<<"P">>, <<"PU">>}
    [] cat = "ssn" -> {<<"S">>}
    [] cat = "creditCard" -> {<<"C">>}

ClassName(cat) ==
  CASE cat = "email" -> "safe-web-masked-email"
    [] cat = "phone" -> "safe-web-masked-phone"
    [] cat = "ssn" -> "safe-web-masked-ssn"
    [] cat = "creditCard" -> "safe-web-masked-card"

\* this.settings === null
NoSettings == [isNull |-> TRUE]

getSensitivePatterns_AllBuiltIn(settings) ==
  IF settings = NoSettings THEN <<>> ELSE Cats

\* The enabled built-in categories, in registration order.
getSensitivePatterns(settings) ==
  IF settings = NoSettings THEN <<>>
  ELSE SelectSeq(Cats, LAMBDA c : c \in settings.sensitivePatterns)

\* Length of the literal of `cat` that starts at token position i of `text`
\* (the longest one, as the greedy quantifiers take it), 0 when none does.
MatchLenAt(text, i, cat) ==
  LET fits == {l \in Lits(cat) :
                 /\ i + Len(l) - 1 <= Len(text)
                 /\ SubSeq(text, i, i + Len(l) - 1) = l}
  IN IF fits = {} THEN 0
     ELSE Len(CHOOSE l \in fits : \A k \in fits : Len(k) <= Len(l))

\* Character offset at which token position i starts.
Offset(text, i) == TextLen(SubSeq(text, 1, i - 1))

\* pattern.regex.test(text) on a /g expression: the search starts at
\* lastIndex; a hit leaves lastIndex at the end of the match, a miss resets
\* it to 0.  Result: [found, lastIndex].
RegexTest(text, cat, lastIndex) ==
  LET hits == {i \in 1..Len(text) :
                 MatchLenAt(text, i, cat) > 0 /\ Offset(text, i) >= lastIndex}
  IN IF hits = {} THEN [found |-> FALSE, lastIndex |-> 0]
     ELSE LET i == CHOOSE j \in hits : \A k \in hits : j <= k
          IN [found |-> TRUE,
              lastIndex |-> Offset(text, i + MatchLenAt(text, i, cat))]

HasMatch(text, cats) ==
  \E c \in cats : \E i \in 1..Len(text) : MatchLenAt(text, i, c) > 0

\* ---------------------------------------------------------- masking engine
\* Every character of the text has a code point below 256.
Latin1(text) == \A i \in 1..Len(text) : text[i] # "PU"

\* btoa(text) / atob(value): the stored original is the base64 form of the
\* matched literal; btoa throws on a character outside Latin-1 (valid is
\* FALSE then, and the caller never gets a value); atob fails on a value that
\* is not base64.
Btoa(text) == [b64 |-> text, valid |-> Latin1(text)]
AtobOk(value) == value.valid
Atob(value) == value.b64

\* Math.min(this.settings?.maskingIntensity || 5, 10)
Intensity(settings) ==
  Min(IF settings.maskingIntensity = 0 THEN defaultIntensity
      ELSE settings.maskingIntensity, maxIntensity)

\* The class list createMaskedElement builds: "safe-web-masked", the
\* category's class and the style class ("safe-web-<style>-<level>", or
\* "safe-web-blackout", or none for an unknown style).
MaskingClass(settings, className) ==
  [masked |-> TRUE,
   other |-> "",
   category |-> className,
   style |-> IF settings.maskingStyle \in {"blur", "pixelate", "blackout"}
             THEN settings.maskingStyle ELSE "",
   level |-> IF settings.maskingStyle \in {"blur", "pixelate"}
             THEN Intensity(settings) ELSE 0]

RawPiece(t) == [kind |-> "tok", tok |-> t]
RawPieces(text) == [i \in 1..Len(text) |-> RawPiece(text[i])]

\* The <span ...>text</span> string createMaskedElement returns, as a piece of
\* the HTML string under construction.
createMaskedElement(text, className, type, settings) ==
  [kind |-> "markup",
   class |-> MaskingClass(settings, className),
   type |-> type,
   original |-> Btoa(text),
   inner |-> RawPieces(text)]

\* The raw tokens at the front of `pieces`, up to the first markup piece.
RECURSIVE RawRun(_)
RawRun(pieces) ==
  IF pieces = <<>> \/ Head(pieces).kind # "tok" THEN <<>>
  ELSE <<Head(pieces).tok>> \o RawRun(Tail(pieces))

\* maskedHTML.replace(pattern.regex, ...): every match of one category in the
\* current string, the text inside spans of earlier passes included.
RECURSIVE ReplacePass(_, _, _)
ReplacePass(pieces, cat, settings) ==
  IF pieces = <<>> THEN <<>>
  ELSE LET h == Head(pieces) IN
    IF h.kind = "markup"
    THEN <<[h EXCEPT !.inner = ReplacePass(h.inner, cat, settings)]>>
           \o ReplacePass(Tail(pieces), cat, settings)
    ELSE LET run == RawRun(pieces)
             n == MatchLenAt(run, 1, cat)
         IN IF n > 0
            THEN <<createMaskedElement(SubSeq(run, 1, n), ClassName(cat), cat, settings)>>
                   \o ReplacePass(SubSeq(pieces, n + 1, Len(pieces)), cat, settings)
            ELSE <<h>> \o ReplacePass(Tail(pieces), cat, settings)

\* The loop over Object.entries(patterns) in maskTextNode.
RECURSIVE ReplaceAll(_, _, _)
ReplaceAll(pieces, patterns, settings) ==
  IF patterns = <<>> THEN pieces
  ELSE ReplaceAll(ReplacePass(pieces, Head(patterns), settings),
                  Tail(patterns), settings)

\* ------------------------------------------------------------------- DOM
TextNode(text) ==
  [kind |-> "text", text |-> text, processed |-> FALSE, scannedWith |-> {"-"}]
BrElement == [kind |-> "br"]

\* What the HTML parser makes of raw text assigned through innerHTML:
\* "&lt;" is decoded to "<", "<br>" and "<b>word </b>" become elements, the
\* rest is text.
ParsesToElement(t) == t \in {"TAG", "BOLD"}
\* The <b> element the parser builds from "<b>word </b>".
BoldElement ==
  [kind |-> "elem", id |-> 3,
   class |-> [masked |-> FALSE, other |-> "", category |-> "", style |-> "", level |-> 0],
   original |-> [b64 |-> <<>>, valid |-> FALSE],
   children |-> <<TextNode(<<"W">>)>>, svg |-> FALSE]
ParsedElement(t) == IF t = "TAG" THEN BrElement ELSE BoldElement
ParseTok(t) == IF t = "ENT" THEN "LT" ELSE t

\* tempDiv.innerHTML = maskedHTML: the node list the parser builds; adjacent
\* character data ends up in one text node.
RECURSIVE ParseHTML(_)
ParseHTML(pieces) ==
  IF pieces = <<>> THEN <<>>
  ELSE LET h == Head(pieces)
           rest == ParseHTML(Tail(pieces))
       IN IF h.kind = "markup"
          THEN <<[kind |-> "span", class |-> h.class, type |-> h.type,
                  original |-> h.original, children |-> ParseHTML(h.inner)]>> \o rest
          ELSE IF ParsesToElement(h.tok) THEN <<ParsedElement(h.tok)>> \o rest
          ELSE IF rest # <<>> /\ Head(rest).kind = "text"
               THEN <<TextNode(<<ParseTok(h.tok)>> \o Head(rest).text)>> \o Tail(rest)
               ELSE <<TextNode(<<ParseTok(h.tok)>>)>> \o rest

\* An element of the page that is not the masking engine's: its id, classes,
\* data-safe-web-original attribute and child nodes.
Element(id, class, original, children) ==
  [kind |-> "elem", id |-> id, class |-> class, original |-> original,
   children |-> children, svg |-> FALSE]

\* The same in the SVG namespace: its className is an SVGAnimatedString,
\* an object without the methods of a string.
SvgElement(id, class, original, children) ==
  [Element(id, class, original, children) EXCEPT !.svg = TRUE]

\* element.className is a string
HasStringClassName(node) == ~(node.kind = "elem" /\ node.svg)

\* Elements with child nodes: the engine's spans and the page's own elements.
IsElement(node) == node.kind \in {"span", "elem"}

IsMasked_Never(node) == FALSE

\* element.matches(".safe-web-masked")
IsMasked(node) == IsElement(node) /\ node.class.masked

\* node.textContent
RECURSIVE TextContent(_)
TextContent(nodes) ==
  IF nodes = <<>> THEN <<>>
  ELSE LET h == Head(nodes)
       IN (CASE h.kind = "text" -> h.text
             [] IsElement(h) -> TextContent(h.children)
             [] OTHER -> <<>>) \o TextContent(Tail(nodes))

\* element.className.replace(/safe-web-[^\s]+/g, "").trim()
StripSafeWeb(class) ==
  [masked |-> FALSE, other |-> class.other, category |-> "", style |-> "", level |-> 0]

\* unmaskAllElements on one element of querySelectorAll(".safe-web-masked"),
\* inner being the outcome for the masked elements below it, which follow
\* it in the list: the element is replaced by its decoded original (what
\* lies below leaves the page with it), or, when decoding fails, stripped of
\* its safe-web classes; className.replace on an object that is no string
\* throws out of the catch block, and out of forEach.
UnmaskElement_Shallow(node, inner) ==
  IF ~IsMasked(node)
  THEN [node |-> [node EXCEPT !.children = inner.out], thrown |-> inner.thrown]
  ELSE IF AtobOk(node.original)
  THEN [node |-> TextNode(Atob(node.original)), thrown |-> inner.thrown]
  ELSE IF ~HasStringClassName(node) THEN [node |-> node, thrown |-> TRUE]
  ELSE [node |-> [node EXCEPT !.class = StripSafeWeb(@)], thrown |-> FALSE]

UnmaskElement(node, inner) ==
  IF ~IsMasked(node)
  THEN [node |-> [node EXCEPT !.children = inner.out], thrown |-> inner.thrown]
  ELSE IF AtobOk(node.original)
  THEN [node |-> TextNode(Atob(node.original)), thrown |-> inner.thrown]
  ELSE IF ~HasStringClassName(node) THEN [node |-> node, thrown |-> TRUE]
  ELSE [node |-> [node EXCEPT !.class = StripSafeWeb(@), !.children = inner.out],
        thrown |-> inner.thrown]

\* unmaskAllElements over a list of sibling nodes and what lies below them,
\* in document order; `thrown` says that an exception has ended the forEach.
RECURSIVE UnmaskChildren(_, _)
UnmaskNode(node, thrown) ==
  IF thrown \/ ~IsElement(node) THEN [node |-> node, thrown |-> thrown]
  ELSE UnmaskElement(node, UnmaskChildren(node.children, FALSE))

UnmaskJoined(h, rest) == [out |-> <<h.node>> \o rest.out, thrown |-> rest.thrown]

UnmaskRest(h, rest) == UnmaskJoined(h, UnmaskChildren(rest, h.thrown))

UnmaskChildren(children, thrown) ==
  IF children = <<>> THEN [out |-> <<>>, thrown |-> thrown]
  ELSE UnmaskRest(UnmaskNode(Head(children), thrown), Tail(children))

\* ------------------------------------------------------------ tree scanner
\* acceptNode's test on the text itself (the container elements of the model
\* match none of the excluded selectors; ScanKids rejects what lies below a
\* masked element).
IsBlank(text) == \A i \in 1..Len(text) : text[i] = "NL"

\* text.trim().length: the length without the white space at both ends (a
\* run of "NL" tokens, and the blank that ends "word ").
RECURSIVE LeadingSpace(_)
LeadingSpace(text) ==
  IF text = <<>> \/ Head(text) # "NL" THEN 0
  ELSE TokLen("NL") + LeadingSpace(Tail(text))

RECURSIVE TrailingSpace(_)
TrailingSpace(text) ==
  IF text = <<>> THEN 0
  ELSE IF text[Len(text)] = "NL"
  THEN TokLen("NL") + TrailingSpace(SubSeq(text, 1, Len(text) - 1))
  ELSE IF text[Len(text)] = "W" THEN 1 ELSE 0

TrimmedLen(text) ==
  IF IsBlank(text) THEN 0 ELSE TextLen(text) - LeadingSpace(text) - TrailingSpace(text)

Eligible(node) ==
  /\ node.kind = "text"
  /\ ~IsBlank(node.text)
  /\ ~(TextLen(node.text) < minTextLength)
  /\ ~(TextLen(node.text) > maxTextLength)

EmptyMap == [q \in {} |-> <<>>]
MapSet(m, k, v) == [q \in DOMAIN m \cup {k} |-> IF q = k THEN v ELSE m[q]]
SeqRange(seq) == {seq[i] : i \in 1..Len(seq)}
ZeroIndex == [c \in SeqRange(Cats) |-> 0]

\* One iteration of the for-loop of scanTextNode: r is the outcome of
\* pattern.regex.test(text) for the first pattern.
RECURSIVE TestLoop(_, _, _)
TestStep(text, patterns, li, r) ==
  IF r.found THEN [found |-> TRUE, li |-> [li EXCEPT ![Head(patterns)] = r.lastIndex]]
  ELSE TestLoop(text, Tail(patterns), [li EXCEPT ![Head(patterns)] = r.lastIndex])

\* The for-loop of scanTextNode: test each pattern in turn, stop at the first
\* hit.  li maps each category to its expression's lastIndex.
TestLoop(text, patterns, li) ==
  IF patterns = <<>> THEN [found |-> FALSE, li |-> li]
  ELSE TestStep(text, patterns, li, RegexTest(text, Head(patterns), li[Head(patterns)]))

\* maskTextNode's early return: no parent, or the parent already has a record.
MaskSkipped(p, m) == p \in DOMAIN m

\* btoa threw in a createMaskedElement call of the replace loop.
RECURSIVE EncodingFailed(_)
EncodingFailed(pieces) ==
  /\ pieces # <<>>
  /\ \/ /\ Head(pieces).kind = "markup"
        /\ ~Head(pieces).original.valid \/ EncodingFailed(Head(pieces).inner)
     \/ EncodingFailed(Tail(pieces))

\* Lines 512-531 of maskTextNode: `pieces` is maskedHTML after the replace
\* loop; the leaf is replaced when the string has changed.  The replace loop
\* (lines 506-510) stands outside the try block: an exception of btoa leaves
\* maskTextNode before anything is installed.
InstallMask(node, p, m, li0, pieces) ==
  IF EncodingFailed(pieces)
  THEN [nodes |-> <<node>>, replaced |-> FALSE, m |-> m, li |-> li0, thrown |-> TRUE]
  ELSE IF pieces # RawPieces(node.text)
  THEN [nodes |-> ParseHTML(pieces), replaced |-> TRUE,
        m |-> MapSet(m, p, [originalText |-> node.text, type |-> "text"]),
        li |-> li0, thrown |-> FALSE]
  ELSE [nodes |-> <<node>>, replaced |-> FALSE, m |-> m, li |-> li0, thrown |-> FALSE]

\* maskTextNode for a leaf whose parent element has key p.  Result: the nodes
\* now standing in the leaf's place, whether the leaf was replaced, the map,
\* the lastIndex values (replace() leaves lastIndex at 0) and whether an
\* exception left the function.
maskTextNode(node, p, m, patterns, settings, li) ==
  IF MaskSkipped(p, m)
  THEN [nodes |-> <<node>>, replaced |-> FALSE, m |-> m, li |-> li, thrown |-> FALSE]
  ELSE InstallMask(node, p, m,
                   [c \in DOMAIN li |-> IF c \in SeqRange(patterns) THEN 0 ELSE li[c]],
                   ReplaceAll(RawPieces(node.text), patterns, settings))

\* scanTextNode once the loop of tests has ended with outcome t.
ScanTested(node, p, m, patterns, settings, t) ==
  IF t.found THEN maskTextNode(node, p, m, patterns, settings, t.li)
  ELSE [nodes |-> <<node>>, replaced |-> FALSE, m |-> m, li |-> t.li, thrown |-> FALSE]

scanTextNode(node, p, m, patterns, settings, li) ==
  ScanTested(node, p, m, patterns, settings, TestLoop(node.text, patterns, li))

\* The test of the observer's callback on one added node (lines 240-245):
\* an element that is neither a masked span nor the indicator and whose
\* trimmed text is longer than significantTextLength.
SignificantNode(node) ==
  /\ IsElement(node)
  /\ ~IsMasked(node)
  /\ TrimmedLen(TextContent(node.children)) > significantTextLength

\* Lines 360-362 / 402-404 for leaf n: r is what scanTextNode did; the leaf
\* joins processedNodes (a replaced leaf is no longer in the page).  When
\* scanTextNode threw, the loop is left before processedNodes.add.
Visited(acc, n, r, cats) ==
  [acc EXCEPT
     !.out = @ \o (IF r.replaced THEN r.nodes
                   ELSE IF r.thrown THEN <<n>>
                   ELSE <<[n EXCEPT !.processed = TRUE,
                                    !.scannedWith = IF acc.track THEN cats ELSE @]>>),
     !.m = r.m, !.li = r.li, !.count = @ + 1, !.visits = @ + 1,
     !.thrown = r.thrown,
     !.revisit = @ \/ n.scannedWith = cats,
     !.significant = @ \/ (r.replaced /\ \E i \in 1..Len(r.nodes) : SignificantNode(r.nodes[i]))]

WithinCap_Unbounded(count) == TRUE

\* textNodes.length < this.maxNodesPerScan (line 474) and
\* slice(0, this.maxNodesPerScan) (lines 356, 399).
WithinCap(count) == count < maxNodesPerScan

\* The key of an element as a parent in maskedElements: the containers have
\* the keys 1..NumParents, the page's other elements the keys above; a span
\* of the engine (key 0) is masked as long as it is in the page, so it is
\* never the parent of an accepted leaf.
ElemKey(node) == IF node.kind = "elem" THEN NumParents + node.id ELSE 0

\* The pass has gone through the children of element n, with outcome inner.
Descended(acc, n, inner) ==
  [inner EXCEPT !.out = Append(acc.out, [n EXCEPT !.children = inner.out])]

\* One pass over the child nodes of the element with key p, in document
\* order.  acc.count is the number of leaves getOptimizedTextNodes has
\* collected so far; nodes created by the pass itself are not in the
\* collected list; leaves below a masked element are rejected; after an
\* exception nothing more is visited.
RECURSIVE ScanKids(_, _, _, _, _)
ScanKids(kids, p, acc, patterns, settings) ==
  IF kids = <<>> THEN acc
  ELSE IF ~acc.thrown /\ IsElement(Head(kids)) /\ ~IsMasked(Head(kids))
  THEN ScanKids(Tail(kids), p,
                Descended(acc, Head(kids),
                          ScanKids(Head(kids).children, ElemKey(Head(kids)),
                                   [acc EXCEPT !.out = <<>>], patterns, settings)),
                patterns, settings)
  ELSE IF acc.thrown \/ ~Eligible(Head(kids)) \/ ~WithinCap(acc.count)
  THEN ScanKids(Tail(kids), p, [acc EXCEPT !.out = Append(@, Head(kids))],
                patterns, settings)
  ELSE IF Head(kids).processed
  THEN ScanKids(Tail(kids), p,
                [acc EXCEPT !.out = Append(@, Head(kids)), !.count = @ + 1],
                patterns, settings)
  ELSE ScanKids(Tail(kids), p,
                Visited(acc, Head(kids),
                        scanTextNode(Head(kids), p, acc.m, patterns, settings, acc.li),
                        SeqRange(patterns)),
                patterns, settings)

\* The loop of scanPage / scanNewContent over the collected leaves of
\* document.body: containers p..NumParents.
RECURSIVE ScanDoc(_, _, _, _, _)
ScannedParent(doc, p, r, patterns, settings) ==
  ScanDoc([doc EXCEPT ![p].children = r.out], p + 1, r, patterns, settings)

ScanDoc(doc, p, acc, patterns, settings) ==
  IF p > NumParents THEN [doc |-> doc, acc |-> acc]
  ELSE IF doc[p].state # "attached" THEN ScanDoc(doc, p + 1, acc, patterns, settings)
  ELSE ScannedParent(doc, p,
                     ScanKids(doc[p].children, p, [acc EXCEPT !.out = <<>>],
                              patterns, settings),
                     patterns, settings)

\* ------------------------------------------------------------------ state
VARIABLES
  settings,           \* this.settings (NoSettings for null)
  maskingActive,      \* this.maskingActive
  maskedElements,     \* this.maskedElements: container -> record
  observer,           \* this.observer: 0 for null, else an id in ObsIds
  observers,          \* every MutationObserver created: connected, pendingChanges
  initialized,        \* this.initialized
  scanDebounceTimer,  \* milliseconds until the deferred scanPage, NoTimer if none
  contentScanTimer,   \* the debounced rescan: milliseconds left and its callback
  sinceLastScan,      \* Date.now() - this.lastScanTime, saturated at scanThrottleDelay
  isDestroyed,        \* this.isDestroyed
  document,           \* the containers of document.body and their child nodes;
                      \* a text node's `processed` is its membership in processedNodes
  indicator,          \* #safe-web-indicator: "none", "shown" or "fading"
  visibilityState,    \* document.visibilityState
  pendingLoads,       \* GET_SETTINGS requests in flight, each with its continuation
  g,                  \* history: what the claims need to remember of the past
  hook,               \* the settings page: the state of its useSettings hook,
                      \* chrome.storage.sync and the messages between the two
  bg                  \* the background worker: safeWebSettings in storage, its
                      \* calls in flight, the messages to the tabs, tab timers

vars == <<settings, maskingActive, maskedElements, observer, observers, initialized,
          scanDebounceTimer, contentScanTimer, sinceLastScan, isDestroyed, document,
          indicator, visibilityState, pendingLoads, g, hook, bg>>

MaxObservers == 2
ObsIds == 1..MaxObservers
NoTimer == -1
NoContentTimer == [remaining |-> NoTimer, callback |-> 0]

\* The whole state as one record, so that a handler is a function on it.
St ==
  [settings |-> settings, maskingActive |-> maskingActive,
   maskedElements |-> maskedElements, observer |-> observer, observers |-> observers,
   initialized |-> initialized, scanDebounceTimer |-> scanDebounceTimer,
   contentScanTimer |-> contentScanTimer, sinceLastScan |-> sinceLastScan,
   isDestroyed |-> isDestroyed, document |-> document, indicator |-> indicator,
   visibilityState |-> visibilityState, pendingLoads |-> pendingLoads, g |-> g,
   hook |-> hook, bg |-> bg]

Assigned(s) ==
  /\ settings' = s.settings
  /\ maskingActive' = s.maskingActive
  /\ maskedElements' = s.maskedElements
  /\ observer' = s.observer
  /\ observers' = s.observers
  /\ initialized' = s.initialized
  /\ scanDebounceTimer' = s.scanDebounceTimer
  /\ contentScanTimer' = s.contentScanTimer
  /\ sinceLastScan' = s.sinceLastScan
  /\ isDestroyed' = s.isDestroyed
  /\ document' = s.document
  /\ indicator' = s.indicator
  /\ visibilityState' = s.visibilityState
  /\ pendingLoads' = s.pendingLoads
  /\ g' = s.g
  /\ hook' = s.hook
  /\ bg' = s.bg

\* ------------------------------------------------------- scan coordinator
\* The state after a pass whose outcome is r.
Scanned(s, r) ==
  [s EXCEPT !.document = r.doc,
            !.maskedElements = r.acc.m,
            !.g.revisit = @ \/ (s.g.trackScans /\ r.acc.revisit),
            !.g.lastVisits = IF s.g.trackVisits THEN r.acc.visits ELSE @,
            !.g.errorEscaped = @ \/ r.acc.thrown,
            !.g.engineBatch = @ \/ r.acc.significant]

\* The loop shared by scanPage (lines 353-364) and scanNewContent (394-405):
\* both visit the not yet processed leaves among the first maxNodesPerScan
\* leaves getOptimizedTextNodes collects.
ScanPass(s) ==
  Scanned(s, ScanDoc(s.document, 1,
                     [out |-> <<>>, m |-> s.maskedElements, li |-> ZeroIndex,
                      count |-> 0, visits |-> 0, thrown |-> FALSE,
                      track |-> s.g.trackScans, revisit |-> FALSE,
                      significant |-> FALSE],
                     getSensitivePatterns(s.settings), s.settings))

ScanPageGuard_NoSettingsCheck(s) == s.isDestroyed

\* scanPage, line 342.
ScanPageGuard(s) == s.isDestroyed \/ s.settings = NoSettings

\* scanPage from line 348 on.
ScanPageBody(s) ==
  IF getSensitivePatterns(s.settings) = <<>> THEN [s EXCEPT !.sinceLastScan = 0]
  ELSE ScanPass([s EXCEPT !.sinceLastScan = 0])

\* scanPage: the guard, then line 346 (a suspension point when there are no
\* settings), then the body.
scanPage(s) ==
  IF ScanPageGuard(s) THEN s
  ELSE IF s.settings = NoSettings
       THEN [s EXCEPT !.pendingLoads = Append(@, "scanPage")]
       ELSE ScanPageBody(s)

throttledScanPage(s) ==
  IF s.isDestroyed THEN s
  ELSE IF s.sinceLastScan < scanThrottleDelay
       THEN [s EXCEPT !.scanDebounceTimer = scanThrottleDelay - s.sinceLastScan]
       ELSE scanPage(s)

scanNewContent(s) ==
  IF s.isDestroyed THEN s
  ELSE IF getSensitivePatterns(s.settings) = <<>> THEN s
  ELSE ScanPass(s)

debouncedScanNewContent(s, callback) ==
  IF s.isDestroyed THEN s
  ELSE [s EXCEPT !.contentScanTimer =
                    [remaining |-> rescanDebounceMs, callback |-> callback]]

\* unmaskAllElements over the containers from p on, in document order.
UnmaskedParent(doc, p, r) ==
  [doc |-> [doc EXCEPT ![p].children = r.out], thrown |-> r.thrown]

RECURSIVE UnmaskDoc(_, _, _)
UnmaskDocRest(r, p) == UnmaskDoc(r.doc, p + 1, r.thrown)

UnmaskDoc(doc, p, thrown) ==
  IF p > NumParents THEN [doc |-> doc, thrown |-> thrown]
  ELSE IF doc[p].state # "attached" THEN UnmaskDoc(doc, p + 1, thrown)
  ELSE UnmaskDocRest(UnmaskedParent(doc, p, UnmaskChildren(doc[p].children, thrown)), p)

\* unmaskAllElements throws in state s.
UnmaskRaises(s) == UnmaskDoc(s.document, 1, FALSE).thrown

\* The state after unmaskAllElements with outcome r: an exception leaves
\* before this.maskedElements.clear().
Unmasked(s, r) ==
  [s EXCEPT !.document = r.doc,
            !.maskedElements = IF r.thrown THEN @ ELSE EmptyMap,
            !.g.unmaskRaised = @ \/ r.thrown]

unmaskAllElements(s) == Unmasked(s, UnmaskDoc(s.document, 1, FALSE))

\* this.processedNodes = new WeakSet()
RECURSIVE ForgetNode(_)
ForgetNode(n) ==
  IF n.kind = "text" THEN [n EXCEPT !.processed = FALSE]
  ELSE IF IsElement(n)
  THEN [n EXCEPT !.children = [i \in 1..Len(@) |-> ForgetNode(@[i])]]
  ELSE n

ResetProcessed(doc) ==
  [p \in Parents |->
     [doc[p] EXCEPT !.children = [i \in 1..Len(@) |-> ForgetNode(@[i])]]]

hideMaskingIndicator(s) == [s EXCEPT !.indicator = "none"]

showMaskingIndicator(s) ==
  IF s.isDestroyed THEN s ELSE [s EXCEPT !.indicator = "shown"]

\* An exception of unmaskAllElements leaves stopMasking, and the handler
\* that called it, at once.
stopMasking(s) ==
  IF UnmaskRaises(s) THEN unmaskAllElements(s)
  ELSE [hideMaskingIndicator(unmaskAllElements(s)) EXCEPT !.document = ResetProcessed(@)]

startMasking(s) ==
  IF s.isDestroyed THEN s ELSE showMaskingIndicator(throttledScanPage(s))

handleToggleMasking(s, enabled) ==
  IF s.isDestroyed THEN s
  ELSE LET s1 == [s EXCEPT !.maskingActive = enabled]
       IN IF s1.maskingActive THEN startMasking(s1) ELSE stopMasking(s1)

handleSettingsUpdate(s, newSettings) ==
  IF s.isDestroyed THEN s
  ELSE LET oldMaskingState == s.maskingActive
           s1 == [s EXCEPT !.settings = newSettings,
                           !.maskingActive = newSettings.maskingEnabled]
       IN IF oldMaskingState # s1.maskingActive
          THEN IF s1.maskingActive THEN startMasking(s1) ELSE stopMasking(s1)
          ELSE IF s1.maskingActive
          THEN IF UnmaskRaises(s1) THEN stopMasking(s1)
               ELSE throttledScanPage(stopMasking(s1))
          ELSE s1

\* ------------------------------------------------------- mutation monitor
\* new MutationObserver(...) + observe(document.body): a fresh observer with
\* its own pendingChanges flag.  A disconnected observer is unreachable
\* garbage (pauseOperations and destroy clear the timer that holds its
\* callback), so its id is taken again.
setupOptimizedMutationObserver(s) ==
  IF s.isDestroyed THEN s
  ELSE LET free == {o \in ObsIds : ~s.observers[o].connected}
           id == CHOOSE o \in free : \A q \in free : o <= q
       IN [s EXCEPT !.observers[id] = [connected |-> TRUE, pendingChanges |-> FALSE],
                    !.observer = id]

\* hasSignificantChanges for a batch that adds one element with these children.
Significant(kids) == TrimmedLen(TextContent(kids)) > significantTextLength

\* The callback of observer o for one batch.
ObserverCallback(s, o, significant) ==
  IF \/ ~s.maskingActive
     \/ s.observers[o].pendingChanges
     \/ s.isDestroyed
     \/ s.visibilityState = "hidden"
  THEN s
  ELSE IF significant
       THEN debouncedScanNewContent([s EXCEPT !.observers[o].pendingChanges = TRUE], o)
       ELSE s

\* The batch is delivered to every connected observer, oldest first.
RECURSIVE Deliver(_, _, _)
Deliver(s, o, significant) ==
  IF o > MaxObservers THEN s
  ELSE Deliver(IF s.observers[o].connected THEN ObserverCallback(s, o, significant) ELSE s,
               o + 1, significant)

pauseOperations(s) ==
  LET s1 == IF s.observer # 0
            THEN [s EXCEPT !.observers[s.observer].connected = FALSE] ELSE s
  IN [s1 EXCEPT !.scanDebounceTimer = NoTimer, !.contentScanTimer = NoContentTimer]

resumeOperations(s) ==
  IF s.initialized /\ ~s.isDestroyed THEN setupOptimizedMutationObserver(s) ELSE s

destroy_KeepsTimers(s) ==
  LET s1 == [s EXCEPT !.isDestroyed = TRUE]
      s2 == IF s1.observer # 0
            THEN [s1 EXCEPT !.observers[s1.observer].connected = FALSE] ELSE s1
  IN [s2 EXCEPT !.maskedElements = EmptyMap, !.document = ResetProcessed(@)]

destroy(s) ==
  LET s1 == [s EXCEPT !.isDestroyed = TRUE]
      s2 == IF s1.observer # 0
            THEN [s1 EXCEPT !.observers[s1.observer].connected = FALSE] ELSE s1
  IN [s2 EXCEPT !.scanDebounceTimer = NoTimer,
                !.contentScanTimer = NoContentTimer,
                !.maskedElements = EmptyMap,
                !.document = ResetProcessed(@)]

\* loadSettings' callback, lines 176-181.
loadSettingsCallback(s, success, data) ==
  IF success THEN [s EXCEPT !.settings = data, !.maskingActive = data.maskingEnabled]
  ELSE s

\* init from line 160 on: the first scan when masking is enabled.
InitialScan(s) ==
  [(IF s.settings # NoSettings /\ s.settings.maskingEnabled THEN scanPage(s) ELSE s)
     EXCEPT !.initialized = TRUE]

\* init after its await, lines 158-168 (the message and keyboard listeners are
\* in place once initialized is set).
initContinuation(s) == InitialScan(setupOptimizedMutationObserver(s))

\* ----------------------------------------------------------------- inputs
\* The child lists of the container elements the page holds or adds:
\*   "word a@b.com" | "a@b.com" <br> "555-123-4567" | "&lt;a@b.com"
\*   | "word word " | "hi"
ElementKids ==
  { <<TextNode(<<"W", "E">>)>>,
    <<TextNode(<<"E">>), BrElement, TextNode(<<"P">>)>>,
    <<TextNode(<<"ENT", "E">>)>>,
    <<TextNode(<<"W", "W">>)>>,
    <<TextNode(<<"HI">>)>> }

\* The settings the background hands out.
SettingsChoices ==
  [maskingEnabled : BOOLEAN,
   maskingStyle : {"blur", "blackout"},
   maskingIntensity : {defaultIntensity},
   sensitivePatterns : {{"email"}, {"email", "phone"}}]

\* The inputs of the lifecycle specification: one style, one category set,
\* one kind of element.
BasicSettings == {st \in SettingsChoices :
                    st.maskingStyle = "blur" /\ st.sensitivePatterns = {"email", "phone"}}
BasicKids == { <<TextNode(<<"W", "E">>)>> }

\* A data-safe-web-original attribute that is missing: atob fails on it.
MissingOriginal == [b64 |-> <<>>, valid |-> FALSE]

\* An element of the page that carries the class safe-web-masked beside a
\* class of its own, without a stored original; it holds the text "hi" and
\* an element of the page's own with the class and the stored original of
\* "a@b.com".
ForeignMasked ==
  Element(1,
          [masked |-> TRUE, other |-> "note", category |-> "", style |-> "", level |-> 0],
          MissingOriginal,
          <<TextNode(<<"HI">>),
            Element(2,
                    [masked |-> TRUE, other |-> "", category |-> "", style |-> "",
                     level |-> 0],
                    Btoa(<<"E">>), <<TextNode(<<"E">>)>>)>>)

\* An <svg> element of the page that carries the class safe-web-masked
\* beside a class of its own, without a stored original.
ForeignSvg ==
  SvgElement(1,
             [masked |-> TRUE, other |-> "icon", category |-> "", style |-> "", level |-> 0],
             MissingOriginal, <<TextNode(<<"HI">>)>>)

\* The child lists of the containers of a page that does not change:
\*   "a@b.com555-123-4567"
\*   | "word word " "word word " "word a@b.com"      (three leaves)
\*   | "a@b.com" <br> "555-123-4567"
\*   | the foreign element above
\*   | "word 555\u2009123\u20094567" <br> "word a@b.com"
\*   | "word a@b.com" and the foreign <svg> element above
StaticKids ==
  { <<TextNode(<<"E", "P">>)>>,
    <<TextNode(<<"W", "W">>), TextNode(<<"W", "W">>), TextNode(<<"W", "E">>)>>,
    <<TextNode(<<"E">>), BrElement, TextNode(<<"P">>)>>,
    <<ForeignMasked>>,
    <<TextNode(<<"W", "PU">>), BrElement, TextNode(<<"W", "E">>)>>,
    <<TextNode(<<"W", "E">>), ForeignSvg>> }

\* The settings of the static-page specification.
StaticSettings ==
  [maskingEnabled : BOOLEAN,
   maskingStyle : {"blur", "blackout"},
   maskingIntensity : {defaultIntensity},
   sensitivePatterns : {{"email"}, {"phone"}, {"email", "phone"}}]

\* The child lists of the containers the page adds under the monitor
\* specification:
\*   "<b>word </b>a@b.com"   (markup written out as text, and an address)
\*   | "word a@b.com"
\*   | a line break, "hi", a line break   (trimmed text of two characters)
MonitorKids ==
  { <<TextNode(<<"BOLD", "E">>)>>,
    <<TextNode(<<"W", "E">>)>>,
    <<TextNode(<<"NL", "HI", "NL">>)>> }

\* The content the page gives a container before it puts it back:
\*   "word 555-123-4567" | "word word "
DetachKids == { <<TextNode(<<"W", "P">>)>>, <<TextNode(<<"W", "W">>)>> }

\* A custom pattern as the settings page stores it in
\* sensitivePatterns.customPatterns (the model keeps the list beside the set
\* of enabled built-in categories): "EMP" stands for the rule source
\* "EMP-\\d{4}", which matches "EMP-1234"; "BAD" for "(", which new RegExp
\* rejects.
CustomPattern(regex, enabled) ==
  [name |-> "internal-id", regex |-> regex, enabled |-> enabled]

Compiles(regex) == regex # "BAD"

CustomPatternChoices ==
  { <<CustomPattern("EMP", TRUE)>>, <<CustomPattern("EMP", FALSE)>>,
    <<CustomPattern("BAD", TRUE)>> }

\* The settings of the engine specification: the default blur settings with
\* email and phone enabled, and what differs from them in the intensity, in
\* the enabled categories or in the custom patterns.
EngineBase ==
  [maskingEnabled |-> TRUE, maskingStyle |-> "blur",
   maskingIntensity |-> defaultIntensity,
   sensitivePatterns |-> {"email", "phone"}, customPatterns |-> <<>>]

EngineSettings ==
  {[EngineBase EXCEPT !.maskingEnabled = e, !.maskingIntensity = i] :
     e \in BOOLEAN, i \in {0 - 3, 0, defaultIntensity, maxIntensity + 5}}
  \cup {[EngineBase EXCEPT !.maskingEnabled = e, !.sensitivePatterns = c] :
          e \in BOOLEAN, c \in {{"phone"}, {"email", "phone", "ssn", "creditCard"}}}
  \cup {[EngineBase EXCEPT !.maskingEnabled = e, !.customPatterns = c] :
          e \in BOOLEAN, c \in CustomPatternChoices}

\* The child lists of the one container of the engine specification:
\*   "word EMP-1234" | "word " | "\n  hihi\n  "
\*   | "\n  " 990 characters "a@b.com" "\n  "     (1003 characters)
\*   | "word 555-123-4567@b.com" | "a@b.com555-123-4567"
EngineKids ==
  { <<TextNode(<<"W", "K">>)>>,
    <<TextNode(<<"W">>)>>,
    <<TextNode(<<"NL", "HI", "HI", "NL">>)>>,
    <<TextNode(<<"NL", "LONG", "E", "NL">>)>>,
    <<TextNode(<<"W", "P", "AT">>)>>,
    <<TextNode(<<"E", "P">>)>> }

\* A container element: not yet in the page, or attached with its child
\* nodes; `source` keeps the text the page gave it.
NewElement == [state |-> "new", children |-> <<>>, source |-> <<>>]
Attached(kids) == [state |-> "attached", children |-> kids, source |-> TextContent(kids)]

\* -------------------------------------------------------------- history
RECURSIVE ForgetScan(_)
ForgetScan(n) ==
  IF n.kind = "text" THEN [n EXCEPT !.scannedWith = {"-"}]
  ELSE IF IsElement(n)
  THEN [n EXCEPT !.children = [i \in 1..Len(@) |-> ForgetScan(@[i])]]
  ELSE n

\* End of an activation episode: stopMasking has returned from a disable
\* request; what was scanned in the episode is forgotten.
EndEpisode(s) ==
  [s EXCEPT !.g.stopReturned = TRUE,
            !.document =
               [p \in Parents |->
                  [@[p] EXCEPT !.children = [i \in 1..Len(@) |-> ForgetScan(@[i])]]]]

BeginEpisode(s) == [s EXCEPT !.g.stopReturned = FALSE]

\* The episode bookkeeping after a handler that left the script in state s.
Loaded(s) == IF s.maskingActive THEN BeginEpisode(s) ELSE s

Switched(s, destroyed, enabled, wasActive, raised) ==
  IF destroyed THEN s
  ELSE IF enabled THEN BeginEpisode(s)
  ELSE IF wasActive /\ ~raised THEN EndEpisode(s)
  ELSE s

\* A significant batch reached a connected observer while monitoring was on:
\* it opens a burst, or continues the one whose last batch is less than
\* rescanDebounceMs old.
BatchSeen(s0, s) ==
  IF /\ s0.maskingActive /\ ~s0.isDestroyed /\ s0.visibilityState = "visible"
     /\ \E o \in ObsIds : s0.observers[o].connected
  THEN [s EXCEPT !.g.burstScans = IF s0.g.sinceLastBatch < rescanDebounceMs THEN @ ELSE 0,
                 !.g.sinceLastBatch = 0]
  ELSE s

\* The mutation records of the handler's own DOM edits reach the observers
\* once the handler has returned (MutationObserver callbacks are
\* microtasks): s0 is the state the handler left.
SelfDelivered(s0, s) ==
  [s EXCEPT !.g.selfScheduled = @ \/ s.observers # s0.observers]

Microtasks(s) ==
  IF s.g.engineBatch
  THEN SelfDelivered(s, BatchSeen(s, Deliver([s EXCEPT !.g.engineBatch = FALSE], 1, TRUE)))
  ELSE s

\* A handler that ran to completion, microtasks included, left state s.
Commit(s) == Assigned(Microtasks(s))

\* ------------------------------------------------------- settings page
\* useSettings (src/unnamed/part_000) and ChromeAPI (src/src/utils/chrome.js).
\* Of the settings object the model keeps sensitivePatterns.customPatterns.
PatternNames == {"internal-id", "ticket"}
PatternRules == {"EMP", "TKT"}
NameCollision == "Pattern with this name already exists"
SaveFailed == "Failed to save settings"

\* getDefaultSettings(): customPatterns is [].
getDefaultSettings == [customPatterns |-> <<>>]

\* chrome.storage.sync holds no safeWebSettings yet.
NoStoredSettings == [absent |-> TRUE]

\* result.safeWebSettings || defaults, on both routes to the storage.
StoredOrDefault(stored) == IF stored = NoStoredSettings THEN getDefaultSettings ELSE stored

\* ChromeAPI.getSettings: the background's answer to GET_SETTINGS; when the
\* message fails, the storage read directly; when that fails too, the
\* defaults.
getSettings(stored, messageOk, storageOk) ==
  IF messageOk \/ storageOk THEN StoredOrDefault(stored) ELSE getDefaultSettings

InitHook ==
  [settings |-> NoSettings, error |-> "", stored |-> NoStoredSettings,
   writes |-> <<>>, changes |-> <<>>, now |-> 0, loaded |-> FALSE, persisted |-> "none",
   last |-> [op |-> "none", name |-> "", tick |-> 0], returned |-> "none"]

\* loadSettings of the hook: setSettings({...defaultSettings, ...storedSettings}).
HookLoadSettings(h, messageOk, storageOk) ==
  [h EXCEPT !.settings = getSettings(h.stored, messageOk, storageOk),
            !.loaded = TRUE]

\* updateSettings of the hook up to its await: the optimistic setSettings and
\* the UPDATE_SETTINGS request with the new list.
HookUpdateSettings(h, customPatterns) ==
  [h EXCEPT !.error = "",
            !.settings = [customPatterns |-> customPatterns],
            !.writes = Append(@, customPatterns),
            !.returned = "pending", !.persisted = "none"]

addCustomPattern_NoNameCheck(h, pattern) ==
  IF h.settings = NoSettings THEN [h EXCEPT !.returned = "false"]
  ELSE HookUpdateSettings(h, Append(h.settings.customPatterns,
                                    [id |-> h.now, name |-> pattern.name,
                                     regex |-> pattern.regex, enabled |-> TRUE]))

addCustomPattern(h, pattern) ==
  IF h.settings = NoSettings THEN [h EXCEPT !.returned = "false"]
  ELSE IF \E i \in 1..Len(h.settings.customPatterns) :
            h.settings.customPatterns[i].name = pattern.name
  THEN [h EXCEPT !.error = NameCollision, !.returned = "false"]
  ELSE HookUpdateSettings(h, Append(h.settings.customPatterns,
                                    [id |-> h.now, name |-> pattern.name,
                                     regex |-> pattern.regex, enabled |-> TRUE]))

removeCustomPattern(h, patternId) ==
  IF h.settings = NoSettings THEN [h EXCEPT !.returned = "false"]
  ELSE HookUpdateSettings(h, SelectSeq(h.settings.customPatterns,
                                       LAMBDA q : q.id # patternId))

toggleCustomPattern(h, patternId) ==
  IF h.settings = NoSettings THEN [h EXCEPT !.returned = "false"]
  ELSE HookUpdateSettings(h, [i \in 1..Len(h.settings.customPatterns) |->
                                IF h.settings.customPatterns[i].id = patternId
                                THEN [h.settings.customPatterns[i] EXCEPT !.enabled = ~@]
                                ELSE h.settings.customPatterns[i]])

\* The sequence without its i-th element.
RemoveAt(seq, i) == SubSeq(seq, 1, i - 1) \o SubSeq(seq, i + 1, Len(seq))

\* chrome.storage.sync.set({safeWebSettings: {...current, ...updates}}): the
\* list of the request replaces the stored one; storage.onChanged is on its
\* way to the hook.
StorageSet(h, customPatterns) ==
  [h EXCEPT !.stored = [customPatterns |-> customPatterns],
            !.changes = IF h.stored = [customPatterns |-> customPatterns] THEN @
                        ELSE Append(@, customPatterns)]

\* The rest of updateSettings of the hook for request i: ChromeAPI.updateSettings
\* has written the list, or it returned false and the hook reports the
\* error and reloads.
UpdateSettled(h, i, success, messageOk, storageOk) ==
  IF success
  THEN StorageSet([h EXCEPT !.writes = RemoveAt(@, i), !.returned = "true",
                            !.persisted = "yes"],
                  h.writes[i])
  ELSE HookLoadSettings([h EXCEPT !.writes = RemoveAt(@, i), !.error = SaveFailed,
                                  !.returned = "false", !.persisted = "no"],
                        messageOk, storageOk)

\* handleStorageChange of the hook.
handleStorageChange(h) ==
  [h EXCEPT !.settings = [customPatterns |-> Head(h.changes)], !.changes = Tail(@)]

\* The call the settings page makes: which operation, on which name.
Called(h, op, name) ==
  [h EXCEPT !.last = [op |-> op, name |-> name, tick |-> 1 - h.last.tick]]

\* ------------------------------------------------------ background worker
\* background.js: the service worker, chrome.storage.sync and the tabs. Tab 1
\* runs the content script modelled above; of the other tabs the model keeps
\* the activation their content scripts hold.
NumTabs == 2
Tabs == 1..NumTabs
OtherTabs == Tabs \ {1}
MaxCalls == 2
MaxRequests == 2
MaxTabEvents == 4

\* The site each tab shows.
SiteOf(t) == IF t = 1 THEN "a.example" ELSE "b.example"

\* safeWebSettings as initializeExtension stores it (the keys the content
\* script reads).
BgDefaultSettings ==
  [maskingEnabled |-> FALSE, maskingStyle |-> "blur",
   maskingIntensity |-> defaultIntensity,
   sensitivePatterns |-> {"email", "phone", "ssn", "creditCard"}]

\* The partial settings the pages send with UPDATE_SETTINGS: one top-level
\* key each.
Updates ==
  { [key |-> "maskingStyle", style |-> "blackout", sensitive |-> {}],
    [key |-> "sensitivePatterns", style |-> "", sensitive |-> {"email"}] }
NoUpdate == [key |-> "", style |-> "", sensitive |-> {}]
ToggleUpdate == [key |-> "maskingEnabled", style |-> "", sensitive |-> {}]

\* { ...currentSettings, ...newSettings }
Merged(current, u, enabled) ==
  IF u.key = "maskingStyle" THEN [current EXCEPT !.maskingStyle = u.style]
  ELSE IF u.key = "sensitivePatterns" THEN [current EXCEPT !.sensitivePatterns = u.sensitive]
  ELSE IF u.key = "maskingEnabled" THEN [current EXCEPT !.maskingEnabled = enabled]
  ELSE current

\* Whether the stored object carries what the update u asked for.
Carries(stored, u) == Merged(stored, u, stored.maskingEnabled) = stored

NoTabTimer == "none"

InitBg ==
  [stored |-> BgDefaultSettings,
   calls |-> <<>>,
   events |-> <<>>,
   inbox |-> [t \in Tabs |-> <<>>],
   active |-> [t \in OtherTabs |-> BgDefaultSettings.maskingEnabled],
   tabUpdateThrottle |-> [t \in Tabs |-> NoTabTimer],
   requests |-> 0,
   flips |-> 0,
   done |-> {},
   answer |-> [success |-> FALSE, before |-> FALSE, tick |-> 0],
   tabEvents |-> 0,
   reported |-> {},
   handled |-> {}]

\* handleMessage, case TOGGLE_MASKING, up to the first await of toggleMasking:
\* without a tab id toggleMasking returns at once and the response is sent.
ToggleRequested(b, tabId) ==
  IF tabId = 0
  THEN [b EXCEPT !.requests = @ + 1,
                 !.answer = [success |-> TRUE, before |-> b.stored.maskingEnabled,
                             tick |-> 1 - @.tick]]
  ELSE [b EXCEPT !.requests = @ + 1,
                 !.calls = Append(@, [kind |-> "toggle", pc |-> "getSettings",
                                      tabId |-> tabId, newState |-> FALSE,
                                      current |-> BgDefaultSettings, update |-> ToggleUpdate,
                                      before |-> b.stored.maskingEnabled])]

\* handleMessage, case UPDATE_SETTINGS, up to the first await of updateSettings.
UpdateRequested(b, u) ==
  [b EXCEPT !.requests = @ + 1,
            !.calls = Append(@, [kind |-> "update", pc |-> "read", tabId |-> 0,
                                 newState |-> FALSE, current |-> BgDefaultSettings,
                                 update |-> u, before |-> b.stored.maskingEnabled])]

\* chrome.storage.sync.set: the object is replaced, and onChanged is raised
\* when the value differs.
StorageSync(b, value) ==
  [b EXCEPT !.stored = value,
            !.events = IF value # b.stored THEN Append(@, value) ELSE @]

\* The call i of the background goes on to its next await.
\*   getSettings: toggleMasking reads the settings and negates maskingEnabled;
\*   read:        updateSettings reads the current settings;
\*   write:       updateSettings stores the merged object;
\*   notify:      toggleMasking sends TOGGLE_MASKING to the tab, and the
\*                response of the request goes out.
CallStep(b, i) ==
  LET c == b.calls[i] IN
  IF c.pc = "getSettings"
  THEN [b EXCEPT !.calls[i].newState = ~b.stored.maskingEnabled,
                 !.calls[i].pc = "read"]
  ELSE IF c.pc = "read"
  THEN [b EXCEPT !.calls[i].current = b.stored, !.calls[i].pc = "write"]
  ELSE IF c.pc = "write"
  THEN IF c.kind = "toggle"
       THEN [StorageSync(b, Merged(c.current, c.update, c.newState))
               EXCEPT !.calls[i].pc = "notify"]
       ELSE [StorageSync(b, Merged(c.current, c.update, c.newState))
               EXCEPT !.calls = RemoveAt(@, i), !.done = @ \cup {c.update}]
  ELSE [b EXCEPT !.calls = RemoveAt(@, i),
                 !.inbox[c.tabId] = Append(@, [type |-> "TOGGLE_MASKING",
                                               enabled |-> c.newState,
                                               data |-> BgDefaultSettings]),
                 !.flips = @ + 1,
                 !.answer = [success |-> TRUE, before |-> c.before, tick |-> 1 - @.tick]]

\* handleStorageChange of the background: SETTINGS_UPDATED with the new value
\* goes to every tab.
BgHandleStorageChange(b) ==
  [b EXCEPT !.events = Tail(@),
            !.inbox = [t \in Tabs |->
                         Append(b.inbox[t], [type |-> "SETTINGS_UPDATED",
                                             enabled |-> Head(b.events).maskingEnabled,
                                             data |-> Head(b.events)])]]

\* The content script of another tab takes a message: handleSettingsUpdate
\* and handleToggleMasking both assign maskingActive.
OtherTabReceives(b, t) ==
  [b EXCEPT !.inbox[t] = Tail(@), !.active[t] = Head(b.inbox[t]).enabled]

\* throttledTabUpdate: the pending timer of the tab is cleared and a new one,
\* which holds the changeInfo of this event, takes its place.
throttledTabUpdate(b, tabId, status) ==
  [b EXCEPT !.tabUpdateThrottle[tabId] = status,
            !.tabEvents = @ + 1,
            !.reported = IF status = "complete" THEN @ \cup {tabId} ELSE @]

\* The timer of throttledTabUpdate fires: handleTabUpdate with the changeInfo
\* the timer holds, then the entry of the tab is deleted.
handleTabUpdate(b, tabId) ==
  [b EXCEPT !.handled = IF b.tabUpdateThrottle[tabId] = "complete"
                        THEN @ \cup {tabId} ELSE @,
            !.tabUpdateThrottle[tabId] = NoTabTimer]

\* ---------------------------------------------------------------- actions
InitDoc(D, trackScans, trackVisits) ==
  /\ settings = NoSettings
  /\ maskingActive = FALSE
  /\ maskedElements = EmptyMap
  /\ observer = 0
  /\ observers = [o \in ObsIds |-> [connected |-> FALSE, pendingChanges |-> FALSE]]
  /\ initialized = FALSE
  /\ scanDebounceTimer = NoTimer
  /\ contentScanTimer = NoContentTimer
  /\ sinceLastScan = scanThrottleDelay
  /\ isDestroyed = FALSE
  /\ document \in D
  /\ indicator = "none"
  /\ visibilityState \in {"visible", "hidden"}
  /\ pendingLoads = <<"init">>
  /\ g = [stopReturned |-> FALSE, trackScans |-> trackScans, revisit |-> FALSE,
          sinceLastBatch |-> rescanDebounceMs, burstScans |-> 0,
          trackVisits |-> trackVisits, lastVisits |-> 0, errorEscaped |-> FALSE,
          unmaskRaised |-> FALSE, engineBatch |-> FALSE, selfScheduled |-> FALSE]
  /\ hook = InitHook
  /\ bg = InitBg

\* The page holds one container with one of the child lists K.
InitWith(K, trackScans) ==
  InitDoc({[p \in Parents |-> IF p = 1 THEN Attached(kids) ELSE NewElement] : kids \in K},
          trackScans, FALSE)

\* The background answers a GET_SETTINGS request; the code waiting for it
\* goes on.
Resume(what, s) ==
  IF what = "init" THEN initContinuation(s) ELSE ScanPageBody(s)

LoadSettingsResponse(S) ==
  /\ pendingLoads # <<>>
  /\ \E success \in BOOLEAN, data \in S :
       Commit(Loaded(Resume(Head(pendingLoads),
                            loadSettingsCallback([St EXCEPT !.pendingLoads = Tail(@)],
                                                 success, data))))

\* chrome.runtime.onMessage: TOGGLE_MASKING
OnToggleMasking ==
  /\ initialized
  /\ \E enabled \in BOOLEAN :
       Commit(Switched(handleToggleMasking(St, enabled), isDestroyed, enabled, TRUE,
                       UnmaskRaises(St)))

\* chrome.runtime.onMessage: SETTINGS_UPDATED
OnSettingsUpdated(S) ==
  /\ initialized
  /\ \E newSettings \in S :
       Commit(Switched(handleSettingsUpdate(St, newSettings), isDestroyed,
                       newSettings.maskingEnabled, maskingActive, UnmaskRaises(St)))

\* chrome.runtime.onMessage: SCAN_PAGE
OnScanPage ==
  /\ initialized
  /\ Commit(throttledScanPage(St))

\* The timer throttledScanPage set fires.
ScanDebounceTimerFires ==
  /\ scanDebounceTimer = 0
  /\ LET s1 == [St EXCEPT !.scanDebounceTimer = NoTimer]
     IN Commit(IF ~s1.isDestroyed THEN scanPage(s1) ELSE s1)

\* The timer debouncedScanNewContent set fires.
ContentScanTimerFires ==
  /\ contentScanTimer.remaining = 0
  /\ LET s1 == [St EXCEPT !.contentScanTimer = NoContentTimer]
         cb == contentScanTimer.callback
     IN Commit(IF ~s1.isDestroyed
               THEN [scanNewContent(s1) EXCEPT
                       !.observers[cb].pendingChanges = FALSE,
                       !.g.burstScans = Min(@ + 1, 2)]
               ELSE s1)

\* The page adds a container element with these children: one mutation batch.
PageAddElement(K) ==
  \E p \in Parents, kids \in K :
    /\ document[p].state = "new"
    /\ Commit(IF Significant(kids)
              THEN BatchSeen(St, Deliver([St EXCEPT !.document[p] = Attached(kids)], 1, TRUE))
              ELSE Deliver([St EXCEPT !.document[p] = Attached(kids)], 1, FALSE))

\* The page takes a container out of the document (element.remove()): the
\* element and what it holds live on, detached; the batch adds no node.
PageRemoveElement ==
  \E p \in Parents :
    /\ document[p].state = "attached"
    /\ Commit([St EXCEPT !.document[p].state = "detached"])

\* The page gives a detached container new content and appends it to the
\* document again: the same element, one mutation batch.
PageReattachElement(K) ==
  \E p \in Parents, kids \in K :
    /\ document[p].state = "detached"
    /\ Commit(IF Significant(kids)
              THEN BatchSeen(St, Deliver([St EXCEPT !.document[p] = Attached(kids)], 1, TRUE))
              ELSE Deliver([St EXCEPT !.document[p] = Attached(kids)], 1, FALSE))

\* The page adds an element whose text is longer than significantTextLength
\* and shorter than minTextLength (such as "&lt;"): a significant batch that
\* brings no eligible leaf.  Such an element takes no part in any scan.
PageAddSmallElement ==
  Commit(BatchSeen(St, Deliver(St, 1, TRUE)))

\* toggleMasking: a TOGGLE_MASKING request goes to the background; the script's
\* own state is untouched until the background's message arrives.
toggleMasking(s) == s

\* keydown Ctrl+Shift+M
KeyboardShortcut ==
  /\ initialized
  /\ Commit(toggleMasking(St))

\* visibilitychange
VisibilityChange ==
  LET s1 == [St EXCEPT !.visibilityState = IF @ = "visible" THEN "hidden" ELSE "visible"]
  IN Commit(IF isDestroyed THEN s1
            ELSE IF s1.visibilityState = "hidden" THEN pauseOperations(s1)
            ELSE resumeOperations(s1))

\* beforeunload
BeforeUnload ==
  /\ ~isDestroyed
  /\ Commit(destroy(St))

\* The indicator's 3000 ms timer: the indicator starts to fade.
IndicatorTimeout ==
  /\ indicator = "shown"
  /\ ~isDestroyed
  /\ Commit([St EXCEPT !.indicator = "fading"])

\* The 300 ms timer set by the one above removes the indicator.
IndicatorFadeTimeout ==
  /\ indicator = "fading"
  /\ Commit([St EXCEPT !.indicator = "none"])

TimeLeft(t, d) == IF t = NoTimer THEN NoTimer ELSE Max(t - d, 0)

\* d milliseconds pass.  A timer that is due may still fire later: setTimeout
\* gives a lower bound only.
AdvanceTime(d) ==
  Commit([St EXCEPT
            !.sinceLastScan = Min(@ + d, scanThrottleDelay),
            !.scanDebounceTimer = TimeLeft(@, d),
            !.contentScanTimer.remaining = TimeLeft(@, d),
            !.g.sinceLastBatch = Min(@ + d, rescanDebounceMs)])

\* The settings page mounts: useEffect runs loadSettings.
HookMount ==
  /\ hook.settings = NoSettings
  /\ \E messageOk, storageOk \in BOOLEAN :
       Commit([St EXCEPT !.hook = HookLoadSettings(hook, messageOk, storageOk)])

\* The user adds a custom pattern.
HookAddCustomPattern ==
  /\ hook.settings # NoSettings
  /\ Len(hook.settings.customPatterns) < MaxPatterns
  /\ Len(hook.writes) < MaxInFlight
  /\ hook.now < MaxAdds
  /\ \E name \in PatternNames, regex \in PatternRules :
       Commit([St EXCEPT !.hook = addCustomPattern(Called([hook EXCEPT !.now = @ + 1],
                                                          "add", name),
                                                   [name |-> name, regex |-> regex])])

\* The user removes, or switches, the custom pattern with an id.
HookRemoveCustomPattern ==
  /\ hook.settings # NoSettings
  /\ Len(hook.writes) < MaxInFlight
  /\ \E i \in 1..Len(hook.settings.customPatterns) :
       Commit([St EXCEPT !.hook =
                 removeCustomPattern(Called(hook, "remove", hook.settings.customPatterns[i].name),
                                     hook.settings.customPatterns[i].id)])

HookToggleCustomPattern ==
  /\ hook.settings # NoSettings
  /\ Len(hook.writes) < MaxInFlight
  /\ \E i \in 1..Len(hook.settings.customPatterns) :
       Commit([St EXCEPT !.hook =
                 toggleCustomPattern(Called(hook, "toggle", hook.settings.customPatterns[i].name),
                                     hook.settings.customPatterns[i].id)])

\* ChromeAPI.updateSettings settles for one of the requests in flight.
HookUpdateSettles ==
  \E i \in 1..Len(hook.writes), success, messageOk, storageOk \in BOOLEAN :
    /\ success => Len(hook.changes) < MaxInFlight
    /\ Commit([St EXCEPT !.hook = UpdateSettled(hook, i, success, messageOk, storageOk)])

\* chrome.storage.onChanged reaches the hook.
HookStorageChanged ==
  /\ hook.changes # <<>>
  /\ Commit([St EXCEPT !.hook = handleStorageChange(hook)])

\* A TOGGLE_MASKING request reaches the background: from the popup (no
\* sender tab, written 0) or for tab 1 (the content script's shortcut, or the
\* toolbar button through handleActionClick).
BgToggleRequest ==
  /\ bg.requests < MaxRequests
  /\ Len(bg.calls) < MaxCalls
  /\ \E tabId \in {0, 1} :
       Commit([St EXCEPT !.bg = ToggleRequested(bg, tabId)])

\* An UPDATE_SETTINGS request reaches the background; each of Updates is
\* sent once.
BgUpdateRequest ==
  /\ bg.requests < MaxRequests
  /\ Len(bg.calls) < MaxCalls
  /\ \E u \in Updates :
       /\ u \notin bg.done
       /\ \A i \in 1..Len(bg.calls) : bg.calls[i].update # u
       /\ Commit([St EXCEPT !.bg = UpdateRequested(bg, u)])

\* A promise one of the background's calls awaits settles.
BgCallStep ==
  \E i \in 1..Len(bg.calls) :
    Commit([St EXCEPT !.bg = CallStep(bg, i)])

\* chrome.storage.onChanged reaches the background.
BgStorageChanged ==
  /\ bg.events # <<>>
  /\ Commit([St EXCEPT !.bg = BgHandleStorageChange(bg)])

\* The content script of tab 1 takes the next message of the background. A
\* message that arrives before the listener is installed is lost.
TabReceives ==
  /\ bg.inbox[1] # <<>>
  /\ LET m == Head(bg.inbox[1])
         s == [St EXCEPT !.bg.inbox[1] = Tail(@)]
     IN Commit(IF ~initialized THEN s
               ELSE IF m.type = "TOGGLE_MASKING"
               THEN Switched(handleToggleMasking(s, m.enabled), isDestroyed, m.enabled,
                             TRUE, UnmaskRaises(St))
               ELSE Switched(handleSettingsUpdate(s, m.data), isDestroyed,
                             m.data.maskingEnabled, maskingActive, UnmaskRaises(St)))

\* The content script of another tab takes its next message.
OtherTabReceivesMessage ==
  \E t \in OtherTabs :
    /\ bg.inbox[t] # <<>>
    /\ Commit([St EXCEPT !.bg = OtherTabReceives(bg, t)])

\* chrome.tabs.onUpdated: a tab with a URL reports a change; changeInfo
\* carries status "loading", status "complete", or a title with no status.
\* Each tab loads one page: no "loading" follows its "complete".
TabUpdated ==
  /\ bg.tabEvents < MaxTabEvents
  /\ \E t \in Tabs, status \in {"loading", "complete", "title"} :
       /\ status = "loading" => t \notin bg.reported
       /\ Commit([St EXCEPT !.bg = throttledTabUpdate(bg, t, status)])

\* The 100 ms timer of a tab fires.
TabUpdateTimerFires ==
  \E t \in Tabs :
    /\ bg.tabUpdateThrottle[t] # NoTabTimer
    /\ Commit([St EXCEPT !.bg = handleTabUpdate(bg, t)])

Init == InitWith(BasicKids, FALSE)

Next ==
  \/ LoadSettingsResponse(BasicSettings)
  \/ OnToggleMasking
  \/ OnSettingsUpdated(BasicSettings)
  \/ OnScanPage
  \/ ScanDebounceTimerFires
  \/ ContentScanTimerFires
  \/ PageAddElement(BasicKids)
  \/ PageAddSmallElement
  \/ KeyboardShortcut
  \/ VisibilityChange
  \/ BeforeUnload
  \/ IndicatorTimeout
  \/ IndicatorFadeTimeout
  \/ AdvanceTime(Tick)

\* The lifecycle specification: every handler, a fine clock.
Spec == Init /\ [][Next]_vars

\* The masking specification: every kind of element, style and category set;
\* the clock moves a whole throttle period at a time.
InitMasking == InitWith(ElementKids, TRUE)

NextMasking ==
  \/ LoadSettingsResponse(SettingsChoices)
  \/ OnToggleMasking
  \/ OnSettingsUpdated(SettingsChoices)
  \/ OnScanPage
  \/ ScanDebounceTimerFires
  \/ ContentScanTimerFires
  \/ PageAddElement(ElementKids)
  \/ AdvanceTime(scanThrottleDelay)

SpecMasking == InitMasking /\ [][NextMasking]_vars

\* The static-page specification: the page holds all its containers from
\* the start (the first with one of StaticKids, the others with the leaf
\* "a@b.com555-123-4567") and does not change by itself; the tab stays
\* visible.
InitStatic ==
  /\ InitDoc({[p \in Parents |-> Attached(IF p = 1 THEN kids
                                            ELSE <<TextNode(<<"E", "P">>)>>)] :
                 kids \in StaticKids},
             TRUE, TRUE)
  /\ visibilityState = "visible"

NextStatic ==
  \/ LoadSettingsResponse(StaticSettings)
  \/ OnToggleMasking
  \/ OnSettingsUpdated(StaticSettings)
  \/ OnScanPage
  \/ ScanDebounceTimerFires
  \/ AdvanceTime(scanThrottleDelay)

SpecStatic == InitStatic /\ [][NextStatic]_vars

\* The engine specification: one container with one leaf, scanned under
\* every one of EngineSettings.
InitEngine ==
  /\ InitDoc({[p \in Parents |-> IF p = 1 THEN Attached(kids) ELSE NewElement] :
                 kids \in EngineKids},
             TRUE, TRUE)
  /\ visibilityState = "visible"

NextEngine ==
  \/ LoadSettingsResponse(EngineSettings)
  \/ OnToggleMasking
  \/ OnSettingsUpdated(EngineSettings)
  \/ OnScanPage
  \/ ScanDebounceTimerFires
  \/ AdvanceTime(scanThrottleDelay)

SpecEngine == InitEngine /\ [][NextEngine]_vars

\* The monitor specification: the page starts empty and adds containers
\* with one of MonitorKids; the tab may be hidden and shown again.
InitMonitor == InitDoc({[p \in Parents |-> NewElement]}, FALSE, FALSE)

NextMonitor ==
  \/ LoadSettingsResponse(BasicSettings)
  \/ OnSettingsUpdated(BasicSettings)
  \/ ScanDebounceTimerFires
  \/ ContentScanTimerFires
  \/ PageAddElement(MonitorKids)
  \/ VisibilityChange
  \/ AdvanceTime(rescanDebounceMs)

SpecMonitor == InitMonitor /\ [][NextMonitor]_vars

\* The detach specification: the page holds one container with
\* "word a@b.com", takes it out of the document and puts it back with one
\* of DetachKids; the tab stays visible.
InitDetach ==
  /\ InitWith(BasicKids, FALSE)
  /\ visibilityState = "visible"

NextDetach ==
  \/ LoadSettingsResponse(BasicSettings)
  \/ OnSettingsUpdated(BasicSettings)
  \/ ScanDebounceTimerFires
  \/ ContentScanTimerFires
  \/ PageRemoveElement
  \/ PageReattachElement(DetachKids)
  \/ AdvanceTime(Tick)

SpecDetach == InitDetach /\ [][NextDetach]_vars

\* The settings specification: the settings page with its hook and the
\* storage, and the content script of one tab loading its settings.
InitSettings ==
  /\ InitWith(BasicKids, FALSE)
  /\ visibilityState = "visible"

NextSettings ==
  \/ HookMount
  \/ HookAddCustomPattern
  \/ HookRemoveCustomPattern
  \/ HookToggleCustomPattern
  \/ HookUpdateSettles
  \/ HookStorageChanged
  \/ LoadSettingsResponse(BasicSettings)

SpecSettings == InitSettings /\ [][NextSettings]_vars

\* The background specification: the service worker with its storage, the
\* content script of tab 1 on a page that holds "word a@b.com", and a second
\* tab on another site.
InitBackground ==
  /\ InitWith(BasicKids, FALSE)
  /\ visibilityState = "visible"

NextBackground ==
  \/ LoadSettingsResponse({bg.stored})
  \/ BgToggleRequest
  \/ BgUpdateRequest
  \/ BgCallStep
  \/ BgStorageChanged
  \/ TabReceives
  \/ OtherTabReceivesMessage
  \/ ScanDebounceTimerFires
  \/ AdvanceTime(scanThrottleDelay)

SpecBackground == InitBackground /\ [][NextBackground]_vars

\* The tab specification: the tabs report changes and the background's
\* timers fire; a timer that is pending does fire.
NextTabs ==
  \/ TabUpdated
  \/ TabUpdateTimerFires

SpecTabs == InitBackground /\ [][NextTabs]_vars /\ WF_vars(TabUpdateTimerFires)

\* The resume specification: masking is switched on, the page adds a
\* container with "word a@b.com", and the tab is hidden and shown. Timers
\* that are due fire and time passes; the page is not obliged to add more.
ResumeSettings == {st \in BasicSettings : st.maskingEnabled}

InitResume ==
  /\ InitDoc({[p \in Parents |-> NewElement]}, FALSE, FALSE)
  /\ visibilityState = "visible"

NextResume ==
  \/ LoadSettingsResponse(ResumeSettings)
  \/ ContentScanTimerFires
  \/ PageAddElement(BasicKids)
  \/ VisibilityChange
  \/ AdvanceTime(rescanDebounceMs)

\* Time passes, and a rescan timer that is due fires: weak fairness of
\* AdvanceTime and of ContentScanTimerFires, the latter written out with the
\* condition under which the timer's step is possible.
ContentScanDue == contentScanTimer.remaining = 0
ContentScanFair == []<>(~ContentScanDue) \/ []<><<ContentScanTimerFires>>_vars

SpecResume ==
  /\ InitResume
  /\ [][NextResume]_vars
  /\ WF_vars(AdvanceTime(rescanDebounceMs))
  /\ ContentScanFair

\* ------------------------------------------------------------------ claims
AttachedParents == {p \in Parents : document[p].state = "attached"}
Kids(p) == document[p].children
HasMaskedSpan(p) == \E i \in 1..Len(Kids(p)) : IsMasked(Kids(p)[i])
NoMaskedSpan == \A p \in AttachedParents : ~HasMaskedSpan(p)
NoTimerPending == scanDebounceTimer = NoTimer /\ contentScanTimer = NoContentTimer
CurrentCats == IF settings = NoSettings THEN {} ELSE settings.sensitivePatterns
\* A leaf a scan pass would mask: eligible, not yet processed, with a match.
MaskableLeaf(p) ==
  \E i \in 1..Len(Kids(p)) :
    /\ Eligible(Kids(p)[i]) /\ ~Kids(p)[i].processed
    /\ HasMatch(Kids(p)[i].text, CurrentCats)
\* The step delivers a significant mutation batch.
SignificantBatchArrives ==
  \/ PageAddSmallElement
  \/ \E p \in Parents :
       /\ document[p].state = "new" /\ document'[p].state = "attached"
       /\ Significant(document'[p].children)

\* C1: once a disable request's stopMasking has returned, neither scan timer
\* is pending and, while masking stays inactive, the page holds no masked span.
C1_DisableQuiesces ==
  g.stopReturned => (NoTimerPending /\ (~maskingActive => NoMaskedSpan))

\* C2: a container whose leaves were masked and then unmasked shows exactly
\* the text the page gave it (mask followed by unmask is the identity on the
\* visible text).
C2_RoundTrip ==
  \A p \in AttachedParents :
    ~HasMaskedSpan(p) => TextContent(Kids(p)) = document[p].source

\* C3: every leaf a scan pass added to processedNodes and left in the page
\* has no match of a category enabled in that pass (a leaf with a match has
\* been replaced by its masked fragment), also for leaves sharing a parent.
C3_ProcessedLeafMasked ==
  \A p \in AttachedParents : \A i \in 1..Len(Kids(p)) :
    LET n == Kids(p)[i]
    IN (n.kind = "text" /\ n.processed /\ n.scannedWith # {"-"})
         => ~HasMatch(n.text, n.scannedWith)

\* C4: after destroy() no callback scans, masks or unmasks: the content of
\* every attached container and maskedElements stay as they are, both scan
\* timers are cleared and this.observer is disconnected.
C4_NoWorkAfterDestroy ==
  /\ [][isDestroyed =>
          /\ \A p \in Parents :
               document[p].state = "attached" => document'[p] = document[p]
          /\ maskedElements' = maskedElements]_vars
  /\ [](isDestroyed =>
          /\ NoTimerPending
          /\ observer # 0 => ~observers[observer].connected)

\* C4 witness: destroyed with masks in the page and a leaf a scan would mask.
C4_Witness ==
  /\ isDestroyed /\ initialized
  /\ \E p \in AttachedParents : HasMaskedSpan(p)
  /\ \E p \in AttachedParents : MaskableLeaf(p)

\* C5: a deferred full scan is not dropped: while masking stays Active and
\* the script is not destroyed, a pending deferred scan stays pending until
\* it runs.
C5_DeferredScanKept ==
  [][(scanDebounceTimer # NoTimer /\ maskingActive /\ maskingActive' /\ ~isDestroyed')
       => (scanDebounceTimer' # NoTimer \/ ScanDebounceTimerFires)]_vars

\* C6: the deferred scan of throttledScanPage starts at least
\* scanThrottleDelay after the start of the scanPage before it (the direct
\* path of throttledScanPage is taken only then).
C6_ThrottleSpacing ==
  [][(ScanDebounceTimerFires /\ ~isDestroyed) => ~(sinceLastScan < scanThrottleDelay)]_vars

\* C7: a significant batch that arrives while a debounced rescan is pending,
\* masking is Active and monitoring is on restarts the debounce timer.
C7_BatchResetsDebounce ==
  [][(/\ contentScanTimer # NoContentTimer
      /\ maskingActive /\ ~isDestroyed /\ visibilityState = "visible"
      /\ observer # 0 /\ observers[observer].connected
      /\ SignificantBatchArrives)
       => contentScanTimer'.remaining = rescanDebounceMs]_vars

\* C8: a burst of significant batches, each less than rescanDebounceMs after
\* the one before, triggers exactly one execution of scanNewContent.
C8_OneRescanPerBurst == g.burstScans <= 1

\* C9: within an activation episode no leaf is passed to scanTextNode a
\* second time with the same set of enabled categories.
C9_NoRevisit == ~g.revisit

\* C10: no scan is ever suspended part-way: scanPage and scanNewContent run
\* to completion before any other handler runs.
C10_ScansRunToCompletion ==
  \A i \in 1..Len(pendingLoads) : pendingLoads[i] # "scanPage"

\* C10 witness: after a scan has masked text, the deferred full scan and the
\* debounced rescan are both due.
C10_Witness ==
  /\ scanDebounceTimer = 0 /\ contentScanTimer.remaining = 0
  /\ \E p \in AttachedParents : HasMaskedSpan(p)

\* The text leaves among these nodes and below them that are eligible by
\* their text and lie outside every element carrying safe-web-masked, in
\* document order.
RECURSIVE Leaves(_)
Leaves(nodes) ==
  IF nodes = <<>> THEN <<>>
  ELSE (IF Eligible(Head(nodes)) THEN <<Head(nodes)>>
        ELSE IF IsElement(Head(nodes)) /\ ~Head(nodes).class.masked
        THEN Leaves(Head(nodes).children)
        ELSE <<>>) \o Leaves(Tail(nodes))

\* The accepted leaves of the whole page.
RECURSIVE PageLeavesFrom(_)
PageLeavesFrom(p) ==
  IF p > NumParents THEN <<>>
  ELSE (IF document[p].state = "attached" THEN Leaves(Kids(p)) ELSE <<>>)
         \o PageLeavesFrom(p + 1)
PageLeaves == PageLeavesFrom(1)

\* C11: a single scan pass hands at most maxNodesPerScan leaves to
\* scanTextNode, whatever the number of leaves in the page.
C11_PassBounded == g.lastVisits <= maxNodesPerScan

\* C11 witness: a pass has visited maxNodesPerScan leaves of a page that
\* holds more accepted leaves than that.
C11_Witness ==
  /\ g.lastVisits = maxNodesPerScan
  /\ Len(PageLeaves) > maxNodesPerScan

\* Leaf n is still to be scanned and holds a match of an enabled category.
Unscanned(n) == ~n.processed /\ HasMatch(n.text, CurrentCats)

\* C12: leaves a pass did not visit are deferred to a later scheduled pass:
\* while masking is Active, once no pass is pending any more (and none was
\* aborted), no accepted leaf with a match of an enabled category is left
\* unscanned.
C12_CappedLeavesDeferred ==
  (/\ maskingActive /\ ~isDestroyed /\ initialized /\ settings # NoSettings
   /\ NoTimerPending /\ ~g.errorEscaped)
    => \A i \in 1..Len(PageLeaves) : ~Unscanned(PageLeaves[i])

\* The nodes without what processedNodes and the history record about them.
RECURSIVE Plain(_)
Plain(nodes) ==
  [i \in 1..Len(nodes) |->
     IF nodes[i].kind = "text" THEN TextNode(nodes[i].text)
     ELSE IF IsElement(nodes[i]) THEN [nodes[i] EXCEPT !.children = Plain(@)]
     ELSE nodes[i]]

\* The page as it is rendered: the node tree of every container.
PlainDoc == [p \in Parents |-> Plain(Kids(p))]

RECURSIVE AnyProcessed(_)
AnyProcessed(nodes) ==
  \E i \in 1..Len(nodes) :
    \/ nodes[i].kind = "text" /\ nodes[i].processed
    \/ IsElement(nodes[i]) /\ AnyProcessed(nodes[i].children)

\* A pass has run since processedNodes was last reset.
AlreadyScanned ==
  maskedElements # EmptyMap \/ \E p \in Parents : AnyProcessed(Kids(p))

\* The step is a scan pass under unchanged settings.
RepeatedPass == OnScanPage \/ ScanDebounceTimerFires

\* C13: a further scan pass with the same settings over a document a pass
\* has masked completely (no leaf with a match of an enabled category is
\* still unscanned) changes nothing in the document: no span is wrapped
\* again, no placeholder is nested in another.
C13_IdempotentOnceComplete ==
  [][(/\ RepeatedPass /\ maskingActive /\ AlreadyScanned
      /\ \A i \in 1..Len(PageLeaves) : ~Unscanned(PageLeaves[i]))
       => PlainDoc' = PlainDoc]_vars

\* C13 as stated: any further scan pass with the same settings over a
\* document that a pass has already masked changes nothing.
C13_Idempotent ==
  [][(RepeatedPass /\ maskingActive /\ AlreadyScanned) => PlainDoc' = PlainDoc]_vars

\* C13 witness: a second pass has gone over a masked container: the text
\* left beside a masked span, which only exists once the span does, is in
\* processedNodes.
C13_Witness ==
  /\ maskingActive
  /\ \E i, j \in 1..Len(Kids(NumParents)) :
       /\ IsMasked(Kids(NumParents)[i])
       /\ Kids(NumParents)[j].kind = "text" /\ Kids(NumParents)[j].processed

\* document.querySelectorAll(".safe-web-masked") is not empty below `nodes`.
RECURSIVE AnyMasked(_)
AnyMasked(nodes) ==
  \E i \in 1..Len(nodes) :
    IsElement(nodes[i]) /\ (nodes[i].class.masked \/ AnyMasked(nodes[i].children))

\* The step is a handler whose call of stopMasking ends the activation
\* episode and returns (Switched records it).
StopMaskingReturns == ~g.stopReturned /\ g'.stopReturned

\* C14: when stopMasking returns, no element of the document carries the
\* class safe-web-masked, at any depth and whoever wrote the class, and
\* maskedElements and processedNodes are empty.
C14_StopLeavesNothingMasked ==
  [][StopMaskingReturns =>
       /\ \A p \in Parents : ~AnyMasked(document'[p].children)
       /\ maskedElements' = EmptyMap
       /\ \A p \in Parents : ~AnyProcessed(document'[p].children)]_vars

\* C14 witness: stopMasking has returned on the page with the foreign
\* element: the element has lost the class, kept its own, and the span that
\* was inside it is text again.
C14_Witness ==
  /\ g.stopReturned /\ ~maskingActive
  /\ \E i \in 1..Len(Kids(1)) :
       /\ Kids(1)[i].kind = "elem"
       /\ ~Kids(1)[i].class.masked /\ Kids(1)[i].class.other = "note"
       /\ \A j \in 1..Len(Kids(1)[i].children) : Kids(1)[i].children[j].kind = "text"

\* C15: unmaskAllElements never raises: an element with the class whose
\* original cannot be decoded only loses its safe-web classes, and the
\* masked elements after it are still processed.
C15_UnmaskNeverRaises == ~g.unmaskRaised

\* C16: masking a leaf never lets an error escape: maskTextNode installs
\* the masked fragment or leaves the leaf as it is, also when btoa cannot
\* encode a match, and the pass goes on with the leaves after it.
C16_NoErrorEscapesMasking == ~g.errorEscaped

\* The data-safe-web-type values of the engine's spans below `nodes`.
RECURSIVE SpanTypes(_)
SpanTypes(nodes) ==
  IF nodes = <<>> THEN {}
  ELSE (IF Head(nodes).kind = "span" /\ Head(nodes).class.masked
        THEN {Head(nodes).type} ELSE {})
       \cup (IF IsElement(Head(nodes)) THEN SpanTypes(Head(nodes).children) ELSE {})
       \cup SpanTypes(Tail(nodes))

\* What the last pass went over is masked as the settings say: no leaf in
\* processedNodes holds a match of an enabled category, and no span masks
\* a category that is not enabled.
RescannedAsSet ==
  /\ \A i \in 1..Len(PageLeaves) :
       PageLeaves[i].processed => ~HasMatch(PageLeaves[i].text, CurrentCats)
  /\ \A p \in AttachedParents : SpanTypes(Kids(p)) \subseteq CurrentCats

\* The step is a SETTINGS_UPDATED received while Active that changes the
\* set of enabled categories, keeps masking Active, and whose re-scan the
\* throttle lets run at once and to its end.
CategoriesChangedRescan ==
  /\ maskingActive /\ maskingActive' /\ settings # NoSettings
  /\ settings'.sensitivePatterns # settings.sensitivePatterns
  /\ sinceLastScan' = 0 /\ scanDebounceTimer' = NoTimer
  /\ ~g'.errorEscaped /\ ~g'.unmaskRaised

\* C17: after the full re-scan that follows a change of the enabled
\* categories while Active, text of a category that is no longer enabled is
\* unmasked and text of a newly enabled category is masked, in every leaf
\* the re-scan has gone over.
C17_RescanAppliesCategories ==
  [][CategoriesChangedRescan => RescannedAsSet']_vars

\* The step is a SETTINGS_UPDATED received while Active that keeps masking
\* Active and the enabled categories, and changes the style or intensity.
StyleOnlyUpdate ==
  /\ maskingActive /\ maskingActive' /\ settings # NoSettings
  /\ settings'.sensitivePatterns = settings.sensitivePatterns
  /\ settings' # settings

\* C18: a style-only update while Active re-renders the spans in place: no
\* scan runs or is scheduled, processedNodes keeps its leaves, and text that
\* was masked is not left without a masked span.
C18_StyleUpdateInPlace ==
  [][StyleOnlyUpdate =>
       /\ sinceLastScan' = sinceLastScan
       /\ scanDebounceTimer' = scanDebounceTimer
       /\ \A p \in AttachedParents :
            /\ AnyProcessed(Kids(p)) => AnyProcessed(Kids(p))'
            /\ HasMaskedSpan(p) => HasMaskedSpan(p)']_vars

\* The step is a TOGGLE_MASKING or SETTINGS_UPDATED handler that takes
\* masking from Inactive to Active.
Activation == initialized /\ ~isDestroyed /\ ~maskingActive /\ maskingActive'

\* C19: every Inactive -> Active transition shows the indicator and has a
\* full-page scan run at once or left pending on the throttle timer, also
\* when the GET_SETTINGS request had failed.
C19_ActivationScans ==
  [][Activation =>
       /\ indicator' = "shown"
       /\ sinceLastScan' = 0 \/ scanDebounceTimer' # NoTimer]_vars

\* C20: getSensitivePatterns has an entry for a built-in category exactly
\* when the settings enable it, and so no pass masks text for a category
\* that is not enabled: the categories of the spans a step brings into the
\* page are enabled in the settings of that step, and after an update that
\* restarts masking no span of another category is left.
C20_OnlyEnabledCategories ==
  [][/\ SeqRange(getSensitivePatterns(settings')) = CurrentCats'
     /\ \A p \in Parents :
          (SpanTypes(document'[p].children) \ SpanTypes(document[p].children))
            \subseteq CurrentCats'
     /\ (maskingActive /\ maskingActive' /\ settings' # settings /\ ~UnmaskRaises(St))
          => \A p \in Parents : SpanTypes(document'[p].children) \subseteq CurrentCats']_vars

\* C20 witness: only email is enabled and "a@b.com555-123-4567" has been
\* scanned: the address is in a span, the phone number is plain text.
C20_Witness ==
  /\ maskingActive /\ CurrentCats = {"email"}
  /\ Len(Kids(NumParents)) = 2
  /\ Kids(NumParents)[1].kind = "span" /\ Kids(NumParents)[1].type = "email"
  /\ Kids(NumParents)[2].kind = "text" /\ Kids(NumParents)[2].text = <<"P">>

\* The custom patterns of the current settings that are enabled and whose
\* rule source compiles.
UsableCustomPatterns ==
  IF settings = NoSettings THEN {}
  ELSE {settings.customPatterns[i].name : i \in
          {j \in 1..Len(settings.customPatterns) :
             /\ settings.customPatterns[j].enabled
             /\ Compiles(settings.customPatterns[j].regex)}}

\* C21: the pattern map a scan has used has a rule for every enabled custom
\* pattern whose rule source compiles.
C21_CustomPatternsDerived ==
  (maskingActive /\ AlreadyScanned)
    => UsableCustomPatterns \subseteq SeqRange(getSensitivePatterns(settings))

\* A text node below a masked element is in processedNodes: the scanner has
\* yielded it.
RECURSIVE YieldedBelowMasked(_, _)
YieldedBelowMasked(nodes, inside) ==
  \E i \in 1..Len(nodes) :
    \/ inside /\ nodes[i].kind = "text" /\ nodes[i].processed
    \/ /\ IsElement(nodes[i])
       /\ YieldedBelowMasked(nodes[i].children, inside \/ nodes[i].class.masked)

\* The largest number of masked elements around a text node below `nodes`.
RECURSIVE WrapDepth(_)
WrapDepth(nodes) ==
  IF nodes = <<>> THEN 0
  ELSE Max(IF IsElement(Head(nodes))
           THEN (IF Head(nodes).class.masked THEN 1 ELSE 0)
                  + WrapDepth(Head(nodes).children)
           ELSE 0,
           WrapDepth(Tail(nodes)))

\* C22: the scanner yields no leaf that lies inside a masked element, and
\* so no character of the page is wrapped by more than one masked span.
C22_NoLeafInsideMask ==
  \A p \in AttachedParents :
    /\ ~YieldedBelowMasked(Kids(p), FALSE)
    /\ WrapDepth(Kids(p)) <= 1

\* C23: a text leaf of a container is eligible, for the scan that has just
\* run, exactly when the length of its trimmed content lies within
\* [minTextLength, maxTextLength].
C23_EligibleByTrimmedLength ==
  \A p \in AttachedParents : \A i \in 1..Len(Kids(p)) :
    (Kids(p)[i].kind = "text" /\ maskingActive /\ sinceLastScan = 0)
      => (Eligible(Kids(p)[i])
            <=> /\ TrimmedLen(Kids(p)[i].text) >= minTextLength
                /\ TrimmedLen(Kids(p)[i].text) <= maxTextLength)

\* Every span of the engine below `nodes` wraps plain text that its own
\* category matches, and nothing else: no rule has been applied to what a
\* placeholder covers.
RECURSIVE MaskedOnce(_)
MaskedOnce(nodes) ==
  \A i \in 1..Len(nodes) :
    /\ nodes[i].kind = "span"
         => /\ \A j \in 1..Len(nodes[i].children) : nodes[i].children[j].kind = "text"
            /\ HasMatch(TextContent(nodes[i].children), {nodes[i].type})
    /\ IsElement(nodes[i]) => MaskedOnce(nodes[i].children)

\* C24: where matches of two enabled categories overlap, the text is masked
\* once, by the category registered first; no later rule is applied to text
\* or markup of an earlier placeholder.
C24_FirstCategoryWins == \A p \in AttachedParents : MaskedOnce(Kids(p))

\* The intensity levels in the style classes of the engine's spans below
\* `nodes` ("safe-web-blur-<level>", "safe-web-pixelate-<level>").
RECURSIVE SpanLevels(_)
SpanLevels(nodes) ==
  IF nodes = <<>> THEN {}
  ELSE (IF Head(nodes).kind = "span" /\ Head(nodes).class.style \in {"blur", "pixelate"}
        THEN {Head(nodes).class.level} ELSE {})
       \cup (IF IsElement(Head(nodes)) THEN SpanLevels(Head(nodes).children) ELSE {})
       \cup SpanLevels(Tail(nodes))

\* C25: whatever integer settings.maskingIntensity is, the intensity in a
\* masked span's class lies in 1..10.
C25_IntensityClamped ==
  \A p \in AttachedParents : SpanLevels(Kids(p)) \subseteq 1..maxIntensity

\* The step schedules a debounced rescan.
RescanScheduled ==
  /\ contentScanTimer' # contentScanTimer
  /\ contentScanTimer'.remaining = rescanDebounceMs

\* The step is the page adding a container: one mutation batch.
PageBatchSignificant ==
  \E p \in Parents :
    /\ document[p].state = "new" /\ document'[p].state = "attached"
    /\ Significant(document'[p].children)

\* The monitor is watching: the tab is visible, the script alive and its
\* current observer connected.
Watching ==
  /\ visibilityState = "visible" /\ ~isDestroyed
  /\ observer # 0 /\ observers[observer].connected

\* C26: a rescan is scheduled only by a batch of the page that adds an
\* element with more than significantTextLength characters of trimmed text
\* while masking is active, and every such batch that reaches the watching
\* monitor leaves a rescan pending; the edits of the masking engine itself
\* never schedule one.
C26_RescanOnlyForPageContent ==
  [][/\ RescanScheduled => (maskingActive /\ PageBatchSignificant)
     /\ (Watching /\ maskingActive /\ PageBatchSignificant)
          => contentScanTimer'.remaining # NoTimer
     /\ ~g'.selfScheduled]_vars

\* The step is the visibilitychange handler running pauseOperations.
PauseStep == visibilityState = "visible" /\ visibilityState' = "hidden" /\ ~isDestroyed

\* The document is hidden before and after the step.
StaysHidden == visibilityState = "hidden" /\ visibilityState' = "hidden"

\* scanPage got past its guard in the step (it stamps lastScanTime).
ScanPageRan == sinceLastScan # 0 /\ sinceLastScan' = 0

\* The debounced rescan fired in the step.
RescanRan == contentScanTimer.remaining = 0 /\ contentScanTimer' = NoContentTimer

\* C27: pauseOperations disconnects the observer and clears both timers,
\* and leaves the page's masks, maskedElements, processedNodes and
\* maskingActive as they are; while the document stays hidden no scan and
\* no rescan runs.
C27_PausedWhileHidden ==
  [][/\ PauseStep =>
          /\ observer # 0 => ~observers'[observer].connected
          /\ scanDebounceTimer' = NoTimer /\ contentScanTimer' = NoContentTimer
          /\ document' = document /\ maskedElements' = maskedElements
          /\ maskingActive' = maskingActive
     /\ StaysHidden => (~ScanPageRan /\ ~RescanRan)]_vars

\* The keys the elements below `nodes` have as parents in maskedElements.
RECURSIVE ElemKeys(_)
ElemKeys(nodes) ==
  IF nodes = <<>> THEN {}
  ELSE (IF IsElement(Head(nodes))
        THEN {ElemKey(Head(nodes))} \cup ElemKeys(Head(nodes).children) ELSE {})
       \cup ElemKeys(Tail(nodes))

\* The keys of the elements that are in the document.
AttachedKeys == AttachedParents \cup UNION {ElemKeys(Kids(p)) : p \in AttachedParents}

\* C28: every key of maskedElements is an element attached to the document.
C28_RecordsOfAttachedElements == DOMAIN maskedElements \subseteq AttachedKeys

\* The names of the patterns of a list, and whether no two are the same.
NamesOf(list) == {list[i].name : i \in 1..Len(list)}
DistinctNames(list) == \A i, j \in 1..Len(list) : list[i].name = list[j].name => i = j
ListOf(s) == IF s \in {NoSettings, NoStoredSettings} THEN <<>> ELSE s.customPatterns

\* The step is a call of addCustomPattern with the name of a pattern the
\* hook's settings hold.
DuplicateAdd ==
  /\ hook'.last # hook.last /\ hook'.last.op = "add"
  /\ hook'.last.name \in NamesOf(ListOf(hook.settings))

\* C29: addCustomPattern with the name of an existing custom pattern returns
\* false, reports the name collision, sends nothing to the storage and leaves
\* the list as it is; the names in the hook's list, in the stored list and
\* in every list on its way to the storage are pairwise distinct.
C29_DuplicateNameRejected ==
  [][/\ DuplicateAdd =>
          /\ hook'.returned = "false" /\ hook'.error = NameCollision
          /\ hook'.writes = hook.writes /\ hook'.stored = hook.stored
          /\ hook'.settings = hook.settings
     /\ DistinctNames(ListOf(hook'.settings)) /\ DistinctNames(ListOf(hook'.stored))
     /\ \A i \in 1..Len(hook'.writes) : DistinctNames(hook'.writes[i])]_vars

\* A second add of "internal-id" has just been rejected while the first
\* pattern is in the list.
C29_Witness ==
  /\ hook.last.op = "add" /\ hook.last.name = "internal-id"
  /\ hook.returned = "false" /\ hook.error = NameCollision
  /\ "internal-id" \in NamesOf(ListOf(hook.settings))

\* C30: whatever fails, a caller that has asked for the settings has them:
\* the hook, once ChromeAPI.getSettings has answered, holds a settings
\* object, and the content script, once init has gone past loadSettings,
\* holds settings to mask with.
C30_NeverWithoutSettings ==
  /\ hook.loaded => (hook.settings # NoSettings /\ hook.settings # NoStoredSettings)
  /\ initialized => settings # NoSettings

\* The MutationObservers that are connected.
ConnectedObservers == {o \in ObsIds : observers[o].connected}

\* C38: at most one observer is connected at any time, and it is the one
\* this.observer refers to.
C38_SingleLiveObserver ==
  /\ Cardinality(ConnectedObservers) <= 1
  /\ ConnectedObservers \subseteq {observer}

\* The character ranges <<start, length>> of the text of `nodes` that lie
\* inside masked elements, `offset` being the position of the first node.
RECURSIVE CoveredFrom(_, _)
CoveredFrom(nodes, offset) ==
  IF nodes = <<>> THEN {}
  ELSE (IF IsMasked(Head(nodes))
        THEN {<<offset, TextLen(TextContent(<<Head(nodes)>>))>>}
        ELSE IF IsElement(Head(nodes)) THEN CoveredFrom(Head(nodes).children, offset)
        ELSE {})
       \cup CoveredFrom(Tail(nodes), offset + TextLen(TextContent(<<Head(nodes)>>)))

\* The child nodes of a container that came with one text leaf, after the
\* first scan under settings st.
FirstScan(p, st) ==
  ScanKids(<<TextNode(document[p].source)>>, p,
           [out |-> <<>>, m |-> EmptyMap, li |-> ZeroIndex, count |-> 0,
            visits |-> 0, thrown |-> FALSE, track |-> FALSE,
            revisit |-> FALSE, significant |-> FALSE],
           getSensitivePatterns(st), st).out

FirstScanCover(p, st) == CoveredFrom(FirstScan(p, st), 0)

\* The container is as enable followed by disable, both under settings st,
\* leave it.
EnabledAndDisabled(p, st) ==
  Plain(Kids(p)) = Plain(UnmaskChildren(FirstScan(p, st), FALSE).out)

\* The step enables masking again, settings unchanged, on a page the
\* disable before it has left without masks, and runs the scan.
EnabledAgain ==
  /\ ~maskingActive /\ maskingActive'
  /\ g.stopReturned
  /\ settings # NoSettings /\ [settings' EXCEPT !.maskingEnabled = TRUE]
                                = [settings EXCEPT !.maskingEnabled = TRUE]
  /\ sinceLastScan # 0 /\ sinceLastScan' = 0
  /\ \A p \in Parents : ~AnyMasked(Kids(p)) /\ ~AnyProcessed(Kids(p))
  /\ \A p \in AttachedParents : EnabledAndDisabled(p, settings)

\* C39: enabling masking again after a disable, with the same settings and
\* an unchanged page, covers the same character ranges as the first scan.
C39_ReenableCoversTheSame ==
  [][EnabledAgain =>
       \A p \in AttachedParents :
         CoveredFrom(document'[p].children, 0) = FirstScanCover(p, settings')]_vars

\* The step is updateSettings of the hook returning after
\* ChromeAPI.updateSettings has answered false.
FailedUpdateReturns ==
  /\ Len(hook'.writes) < Len(hook.writes)
  /\ hook'.persisted = "no"

\* C33: when persisting fails, updateSettings returns false, records the
\* error, and leaves the hook with the stored settings (the defaults where
\* nothing is stored): the update that failed is not in them.
C33_FailedUpdateReverted ==
  [][FailedUpdateReturns =>
       /\ hook'.returned = "false" /\ hook'.error = SaveFailed
       /\ hook'.settings = StoredOrDefault(hook'.stored)]_vars

\* C32: whenever a TOGGLE_MASKING request is answered with success (so that
\* ChromeAPI.toggleMasking resolves to true), the stored maskingEnabled is
\* the negation of what it was when the request was made, whether the request
\* came from the popup or from a tab.
ToggleAnswered == bg'.answer # bg.answer /\ bg'.answer.success
C32_ToggleTrueMeansFlipped ==
  [][ToggleAnswered => bg'.stored.maskingEnabled # bg'.answer.before]_vars

\* C34: when only toggle requests were made and all of them have completed,
\* maskingEnabled is its initial value after an even number of toggles and
\* the negation after an odd number.
OnlyTogglesCompleted == bg.calls = <<>> /\ bg.done = {}
C34_TogglesFlipOnceEach ==
  OnlyTogglesCompleted =>
    bg.stored.maskingEnabled = (BgDefaultSettings.maskingEnabled # (bg.flips % 2 = 1))

\* C35: when the two updates of disjoint keys have both completed and nothing
\* else was asked of the background, the stored settings carry both, and the
\* keys neither names are as they were.
BothUpdatesCompleted == bg.calls = <<>> /\ bg.done = Updates /\ bg.flips = 0
C35_DisjointUpdatesBothKept ==
  BothUpdatesCompleted =>
    /\ \A u \in Updates : Carries(bg.stored, u)
    /\ bg.stored.maskingEnabled = BgDefaultSettings.maskingEnabled
    /\ bg.stored.maskingIntensity = BgDefaultSettings.maskingIntensity

\* C31: a toggle made from tab 1 (or from the popup) leaves the activation of
\* the content scripts in the tabs that show other sites as it was.
C31_OtherSitesUntouched ==
  [][\A t \in OtherTabs : SiteOf(t) # SiteOf(1) => bg'.active[t] = bg.active[t]]_vars

\* C36: when one toggle to "enabled" was made and the content script, already
\* Active through the first message of the pair, takes the second one, the
\* masks it had applied stay.
SecondOfPairArrives ==
  /\ bg.requests = 1
  /\ bg.flips = 1
  /\ bg.events = <<>>
  /\ Len(bg.inbox[1]) = 1
  /\ bg'.inbox[1] = <<>>
  /\ Head(bg.inbox[1]).enabled
  /\ maskingActive
C36_MasksKeptBetweenMessages ==
  [][SecondOfPairArrives =>
       \A p \in AttachedParents : HasMaskedSpan(p) => HasMaskedSpan(p)']_vars

\* C37: a tab that has reported status "complete" with a URL is eventually
\* handled: handleTabUpdate runs with that completion, whatever other events
\* of the tab follow while its timer is pending.
C37_CompletionEventuallyHandled ==
  \A t \in Tabs : (t \in bg.reported) ~> (t \in bg.handled)

\* C40: if the tab ends up visible for good, then whenever masking is Active
\* and an attached container holds an eligible leaf with a match, that leaf is
\* eventually masked (or masking is switched off), with no further change of
\* the page needed.
LeafAwaitsMask ==
  /\ maskingActive /\ ~isDestroyed
  /\ \E p \in AttachedParents : MaskableLeaf(p)
LeafSettled == ~maskingActive \/ \A p \in AttachedParents : ~MaskableLeaf(p)
C40_AddedContentEventuallyMasked ==
  <>[](visibilityState = "visible") => (LeafAwaitsMask ~> LeafSettled)

====
